---- MODULE Spec2Model ----
(***************************************************************************)
(* Utapi metric accounting: the write path of UtapiClient.pushMetric, the  *)
(* store commands it pipelines through Datastore.batch, and the read path  *)
(* of Buckets.getBucketMetrics.                                            *)
(*                                                                         *)
(* Every client owns one connection to the store.  The commands of a       *)
(* pipeline are applied to the store one at a time, in the order they were *)
(* queued on the connection; commands of different connections interleave  *)
(* freely.                                                                 *)
(***************************************************************************)
EXTENDS Integers, Sequences, FiniteSets, TLC

(***************************************************************************)
(* Bounds of the model.                                                    *)
(***************************************************************************)
NumClients == 2
MaxPushes == 2
MaxTicks == 1

VARIABLE
    run       \* the clients of this run, the number of pushes it makes, the
              \* metrics each client pushes, the readings of the clock, the
              \* accounts events name, the configuration of the clients,
              \* whether events carry any params, the number of failures
              \* the store may report to a call or a request, and the time
              \* zone of the process

(***************************************************************************)
(* Time.  Timestamps are epoch milliseconds.                               *)
(***************************************************************************)
MsPerMinute == 60000
MinutesPerHour == 60
IntervalMinutes == 15
IntervalMs == IntervalMinutes * MsPerMinute
\* The wall clock starts on a full hour and is read at multiples of TickMs.
StartOfTime == MinutesPerHour * MsPerMinute
TickMinutes == 20
TickMs == TickMinutes * MsPerMinute

\* A time zone: the offset of local time from UTC is `dst` before the
\* instant `ends` and `std` from then on (dst >= std: where they differ the
\* local times from ends + std up to ends + dst occur twice); `repeated`
\* says which of the two instants the engine takes such a local time for.
UTCZone == [std |-> 0, dst |-> 0, ends |-> 0, repeated |-> "earlier"]

\* The offset of local time at the instant t.
LocalTZA(zone, t) == IF t < zone.ends THEN zone.dst ELSE zone.std

\* LocalTime(t)
LocalTime(zone, t) == t + LocalTZA(zone, t)

\* UTC(t): the instant of a local time.
UTC(zone, local) ==
    LET early == local - zone.dst
        late == local - zone.std
    IN  IF late < zone.ends THEN early
        ELSE IF early >= zone.ends THEN late
        ELSE IF zone.repeated = "earlier" THEN early ELSE late

\* Date.getMinutes(): the minutes of the local time.
getMinutes(t) == (LocalTime(run.zone, t) \div MsPerMinute) % MinutesPerHour

\* Date.setMinutes(m, 0, 0) for 0 <= m < 60: the minutes of the local time
\* replaced, its seconds and milliseconds zeroed.
setMinutes(t, m) ==
    LET local == LocalTime(run.zone, t)
    IN  UTC(run.zone,
            (local - (local % (MinutesPerHour * MsPerMinute)))
                + m * MsPerMinute)

getNormalizedTimestamp_Ceil(now) ==
    setMinutes(now, getMinutes(now) - (getMinutes(now) % IntervalMinutes))
        + IntervalMs

\* UtapiClient.getNormalizedTimestamp, for a wall clock reading `now`.
getNormalizedTimestamp(now) ==
    setMinutes(now, getMinutes(now) - (getMinutes(now) % IntervalMinutes))

(***************************************************************************)
(* Decimal strings.  A string is a sequence of one-character strings.      *)
(***************************************************************************)
DigitChars == <<"0", "1", "2", "3", "4", "5", "6", "7", "8", "9">>

IsDigit(c) == \E d \in 1..10 : DigitChars[d] = c

DigitValue(c) == (CHOOSE d \in 1..10 : DigitChars[d] = c) - 1

\* Byte order of the characters that occur in a decimal string.
CharCode(c) == IF c = "-" THEN 45 ELSE 48 + DigitValue(c)

RECURSIVE NatToString(_)
NatToString(n) ==
    IF n < 10 THEN <<DigitChars[n + 1]>>
    ELSE NatToString(n \div 10) \o <<DigitChars[(n % 10) + 1]>>

\* String(n) of an integer n.
NumToString(n) == IF n < 0 THEN <<"-">> \o NatToString(-n) ELSE NatToString(n)

\* The value of the longest prefix of digits of s, acc being the value and
\* seen telling whether a digit was read so far.
RECURSIVE ParseDigits(_, _, _)
ParseDigits(s, acc, seen) ==
    IF s # <<>> /\ IsDigit(Head(s))
    THEN ParseDigits(Tail(s), 10 * acc + DigitValue(Head(s)), TRUE)
    ELSE [nan |-> ~seen, n |-> acc]

\* parseInt(s, 10) of a string s: [nan |-> TRUE] stands for NaN.
parseIntStr(s) ==
    IF s # <<>> /\ Head(s) = "-"
    THEN LET p == ParseDigits(Tail(s), 0, FALSE)
         IN  [nan |-> p.nan, n |-> 0 - p.n]
    ELSE ParseDigits(s, 0, FALSE)

\* memcmp order of two strings.
RECURSIVE StrLess(_, _)
StrLess(a, b) ==
    IF b = <<>> THEN FALSE
    ELSE IF a = <<>> THEN TRUE
    ELSE IF Head(a) = Head(b) THEN StrLess(Tail(a), Tail(b))
    ELSE CharCode(Head(a)) < CharCode(Head(b))

(***************************************************************************)
(* Values a store command replies with, as the client library hands them   *)
(* to the callback: an integer, a string, null, or an array of strings.    *)
(***************************************************************************)
IntReply(n) == [t |-> "int", n |-> n, s |-> <<>>]
StrReply(s) == [t |-> "str", n |-> 0, s |-> s]
NullReply == [t |-> "null", n |-> 0, s |-> <<>>]
\* An array reply of LIMIT 0 1 holds no string or one.
ArrReply(s) == [t |-> "arr1", n |-> 0, s |-> s]
EmptyArrReply == [t |-> "arr0", n |-> 0, s |-> <<>>]

\* A number the client computes itself.
Num(n) == IntReply(n)

\* How the client library writes a command argument: null becomes the
\* empty string, anything else String(arg).
toArg(v) == IF v.t = "int" THEN NumToString(v.n) ELSE v.s

\* parseInt(v, 10): the argument is converted to a string first.
parseInt(v) ==
    IF v.t = "null" THEN [nan |-> TRUE, n |-> 0]
    ELSE parseIntStr(toArg(v))

(***************************************************************************)
(* Schema: the keys of the store.  A key is kept as the tuple of the parts *)
(* its string is made of.                                                  *)
(***************************************************************************)
\* A property that params does not carry.
Absent == "undefined"

\* The resource a per-level params record names: its level and its id.
\* `service` is looked at last because every record carries it.
ResourceOf(params) ==
    IF params.bucket # Absent
    THEN [level |-> "buckets", id |-> params.bucket]
    ELSE IF params.accountId # Absent
    THEN [level |-> "accounts", id |-> params.accountId]
    ELSE [level |-> "service", id |-> params.service]

KeyOf(res, kind, metric, ts) ==
    [level |-> res.level, id |-> res.id, kind |-> kind, metric |-> metric,
     ts |-> ts]

\* R:{metric}:{interval}
generateKey(params, metric, timestamp) ==
    KeyOf(ResourceOf(params), "delta", metric, timestamp)

\* R:counter:{metric}, metric being storageUtilizedCounter or
\* numberOfObjectsCounter
generateCounter(params, metric) ==
    KeyOf(ResourceOf(params), "counter", metric, 0)

\* R:state:{metric}
generateStateKey(params, metric) ==
    KeyOf(ResourceOf(params), "state", metric, 0)

\* All running-counter keys of the resource.
getCounters(params) ==
    <<generateCounter(params, "storageUtilizedCounter"),
      generateCounter(params, "numberOfObjectsCounter")>>

(***************************************************************************)
(* The store.  kv holds the integer of every string key that was written,  *)
(* zs the sorted set of every state key: a set of [score, member] entries  *)
(* in which a member occurs once.                                          *)
(***************************************************************************)
Cmd(op, key, n, score, member) ==
    [op |-> op, key |-> key, n |-> n, score |-> score, member |-> member]

CmdSet_Incrby(key, v) == Cmd("incrby", key, v, 0, <<>>)
CmdSet(key, v) == Cmd("set", key, v, 0, <<>>)
CmdGet(key) == Cmd("get", key, 0, 0, <<>>)
CmdIncr(key) == Cmd("incr", key, 1, 0, <<>>)
CmdIncrby_Incr(key, n) == Cmd("incr", key, 1, 0, <<>>)
CmdIncrby_Decrby(key, n) == Cmd("decrby", key, n, 0, <<>>)
CmdIncrby(key, n) == Cmd("incrby", key, n, 0, <<>>)
CmdDecrby_Incrby(key, n) == Cmd("incrby", key, n, 0, <<>>)
CmdDecrby(key, n) == Cmd("decrby", key, n, 0, <<>>)
\* zremrangebyscore key min max, with min = max = score
CmdZremrangebyscore(key, score) == Cmd("zremrangebyscore", key, 0, score, <<>>)
CmdZadd(key, score, value) == Cmd("zadd", key, 0, score, toArg(value))
\* zrevrangebyscore key max -inf LIMIT 0 1
CmdZrevrangebyscore(key, max) == Cmd("zrevrangebyscore", key, 0, max, <<>>)

Reply(val) == [err |-> FALSE, val |-> val]

\* The result of a command that failed: [err], without a value.
Failed == [err |-> TRUE, val |-> [t |-> "undefined", n |-> 0, s |-> <<>>]]

StrGet(kv, key) == IF key \in DOMAIN kv THEN kv[key] ELSE 0

ZGet(zs, key) == IF key \in DOMAIN zs THEN zs[key] ELSE {}

Entry(score, member) == [score |-> score, member |-> member]

\* Order of a sorted set: by score, then by member.
EntryLess(a, b) ==
    \/ a.score < b.score
    \/ a.score = b.score /\ StrLess(a.member, b.member)

ZaddKeepOld(set, score, member) == set \cup {Entry(score, member)}

\* ZADD: a member that is in the set already is moved to the new score.
Zadd(set, score, member) ==
    {e \in set : e.member # member} \cup {Entry(score, member)}

ZremrangebyscoreBelow(set, min, max) == {e \in set : e.score > max}

\* ZREMRANGEBYSCORE min max
Zremrangebyscore(set, min, max) ==
    {e \in set : ~(min <= e.score /\ e.score <= max)}

ZrevrangebyscoreOldest(set, max) ==
    LET cand == {e \in set : e.score <= max}
    IN  IF cand = {} THEN EmptyArrReply
        ELSE ArrReply((CHOOSE e \in cand :
                          \A f \in cand : f = e \/ EntryLess(e, f)).member)

\* ZREVRANGEBYSCORE max -inf LIMIT 0 1: the last entry at a score <= max.
Zrevrangebyscore(set, max) ==
    LET cand == {e \in set : e.score <= max}
    IN  IF cand = {} THEN EmptyArrReply
        ELSE ArrReply((CHOOSE e \in cand :
                          \A f \in cand : f = e \/ EntryLess(f, e)).member)

\* The store after one command, and the command's reply.
Apply(kv, zs, c) ==
    CASE c.op = "set" ->
           [kv |-> (c.key :> c.n) @@ kv, zs |-> zs,
            reply |-> Reply(StrReply(<<"O", "K">>))]
      [] c.op = "get" ->
           [kv |-> kv, zs |-> zs,
            reply |-> Reply(IF c.key \in DOMAIN kv
                            THEN StrReply(NumToString(kv[c.key]))
                            ELSE NullReply)]
      [] c.op \in {"incr", "incrby"} ->
           [kv |-> (c.key :> (StrGet(kv, c.key) + c.n)) @@ kv, zs |-> zs,
            reply |-> Reply(IntReply(StrGet(kv, c.key) + c.n))]
      [] c.op = "decrby" ->
           [kv |-> (c.key :> (StrGet(kv, c.key) - c.n)) @@ kv, zs |-> zs,
            reply |-> Reply(IntReply(StrGet(kv, c.key) - c.n))]
      [] c.op = "zremrangebyscore" ->
           [kv |-> kv,
            zs |-> (c.key :> Zremrangebyscore(ZGet(zs, c.key), c.score,
                                              c.score)) @@ zs,
            reply |-> Reply(IntReply(Cardinality(
                          ZGet(zs, c.key) \ Zremrangebyscore(
                              ZGet(zs, c.key), c.score, c.score))))]
      [] c.op = "zadd" ->
           [kv |-> kv,
            zs |-> (c.key :> Zadd(ZGet(zs, c.key), c.score, c.member)) @@ zs,
            reply |-> Reply(IntReply(
                          IF \E e \in ZGet(zs, c.key) : e.member = c.member
                          THEN 0 ELSE 1))]
      [] c.op = "zrevrangebyscore" ->
           [kv |-> kv, zs |-> zs,
            reply |-> Reply(Zrevrangebyscore(ZGet(zs, c.key), c.score))]

\* The store after the commands cmds, run one after the other, and their
\* replies.
RECURSIVE RunCmds(_, _, _)
RunCmds(k, z, cmds) ==
    IF cmds = <<>> THEN [kv |-> k, zs |-> z, results |-> <<>>]
    ELSE LET out == Apply(k, z, Head(cmds))
             rest == RunCmds(out.kv, out.zs, Tail(cmds))
         IN  [kv |-> rest.kv, zs |-> rest.zs,
              results |-> <<out.reply>> \o rest.results]

(***************************************************************************)
(* UtapiClient: the dispatch table, the fan-out and the write algorithms.  *)
(***************************************************************************)
Undefined == [t |-> "undefined", n |-> 0, s |-> <<>>]
Null == NullReply

GenericMetrics ==
    {"deleteBucket", "listBucket", "getBucketAcl", "putBucketAcl",
     "putBucketWebsite", "getBucketWebsite", "deleteBucketWebsite",
     "initiateMultipartUpload", "listMultipartUploadParts",
     "abortMultipartUpload", "getObjectAcl", "putObjectAcl", "headBucket",
     "headObject"}

\* The method that handles each metric.
methods ==
    [m \in GenericMetrics |-> "_genericPushMetric"] @@
    [createBucket |-> "_pushMetricCreateBucket",
     uploadPart |-> "_pushMetricUploadPart",
     completeMultipartUpload |-> "_pushMetricCompleteMultipartUpload",
     listMultipartUploads |-> "_pushMetricListBucketMultipartUploads",
     deleteObject |-> "_genericPushMetricDeleteObject",
     multiObjectDelete |-> "_genericPushMetricDeleteObject",
     getObject |-> "_pushMetricGetObject",
     putObject |-> "_pushMetricPutObject",
     copyObject |-> "_pushMetricCopyObject"]

Metrics == DOMAIN methods

\* The property of params that names the resource of each metric level.
metricObj ==
    [buckets |-> "bucket", accounts |-> "accountId", services |-> "service"]

\* Object.keys(metricObj)
MetricLevels == <<"buckets", "accounts", "services">>

\* The client's configuration: config.component, and config.metrics, a
\* list of levels or undefined.
component == "s3"
metrics == run.config.metrics

disableClient_Never == FALSE

\* this.disableClient: true until a store is configured.
disableClient == run.config.disableClient

\* A configuration without a metrics list.
NoMetricsList == [defined |-> FALSE, levels |-> <<>>]

\* The metrics lists of the configurations.
MetricsLists ==
    {<<"accounts">>, <<"buckets">>, <<"services">>, <<"buckets", "accounts">>,
     <<"buckets", "accounts", "services">>}

\* The constructor's outcomes: this.metrics, and this.disableClient, which
\* is false when config.redis is given.
DefaultConfig == [metrics |-> NoMetricsList, disableClient |-> FALSE]

Configs ==
    {[metrics |-> m, disableClient |-> d] :
        m \in {NoMetricsList}
               \cup {[defined |-> TRUE, levels |-> l] : l \in MetricsLists},
        d \in BOOLEAN}

\* The properties each method hands to _checkProperties.
CheckedProperties(method) ==
    CASE method \in {"_pushMetricUploadPart", "_pushMetricGetObject"} ->
           <<"newByteLength">>
      [] method \in {"_pushMetricPutObject", "_pushMetricCopyObject"} ->
           <<"newByteLength", "oldByteLength">>
      [] method = "_genericPushMetricDeleteObject" ->
           <<"byteLength", "numberOfObjects">>
      [] OTHER -> <<>>

checkProperties_None(params, properties) == TRUE

\* _checkProperties: TRUE when no assertion fails.
checkProperties(params, properties) ==
    \A i \in 1..Len(properties) :
        /\ params[properties[i]].t # "undefined"
        /\ IF properties[i] = "oldByteLength"
           THEN params[properties[i]].t \in {"int", "null"}
           ELSE params[properties[i]].t = "int"

\* _checkMetricTypes: TRUE when no assertion fails.
checkMetricTypes(params) ==
    IF metrics.defined
    THEN TRUE
    ELSE \E i \in 1..Len(MetricLevels) :
            params[metricObj[MetricLevels[i]]] # Absent

\* The props of _getParamsArr: 'service', then the property of every level
\* of `levels` that params carries.
RECURSIVE Props(_, _)
Props(levels, params) ==
    IF levels = <<>> THEN <<>>
    ELSE (IF params[metricObj[Head(levels)]] # Absent
          THEN <<metricObj[Head(levels)]>> ELSE <<>>)
         \o Props(Tail(levels), params)

\* The parameter object _getParamsArr builds for the property `type`.
typeObj(type, params) ==
    [bucket |-> IF type = "bucket" THEN params.bucket ELSE Absent,
     accountId |-> IF type = "accountId" THEN params.accountId ELSE Absent,
     service |-> component,
     byteLength |-> params.byteLength,
     newByteLength |-> params.newByteLength,
     oldByteLength |-> params.oldByteLength,
     numberOfObjects |-> params.numberOfObjects]

getParamsArr_NoService(params) ==
    LET levels == IF metrics.defined THEN metrics.levels ELSE MetricLevels
        props == Props(levels, params)
    IN  [i \in 1..Len(props) |-> typeObj(props[i], params)]

\* _getParamsArr, given that _checkMetricTypes passed.
getParamsArr(params) ==
    LET levels == IF metrics.defined THEN metrics.levels ELSE MetricLevels
        props == <<"service">> \o Props(levels, params)
    IN  [i \in 1..Len(props) |-> typeObj(props[i], params)]

numberOfObjectsCounter_AlwaysIncr(params) ==
    CmdIncr(generateCounter(params, "numberOfObjectsCounter"))

numberOfObjectsCounter_Inverted(params) ==
    IF params.oldByteLength.t # "null"
    THEN CmdIncr(generateCounter(params, "numberOfObjectsCounter"))
    ELSE CmdGet(generateCounter(params, "numberOfObjectsCounter"))

\* The command of _pushMetricPutObject and _pushMetricCopyObject on the
\* numberOfObjects counter: a new object counts, an overwritten one does not.
numberOfObjectsCounter(params) ==
    IF params.oldByteLength.t = "null"
    THEN CmdIncr(generateCounter(params, "numberOfObjectsCounter"))
    ELSE CmdGet(generateCounter(params, "numberOfObjectsCounter"))

copyObjectCmds_WithIncomingBytes(params, timestamp, action) ==
    LET oldObjSize ==
            IF params.oldByteLength.t = "null" THEN 0
            ELSE params.oldByteLength.n
        storageUtilizedDelta == params.newByteLength.n - oldObjSize
    IN  <<CmdIncrby(generateCounter(params, "storageUtilizedCounter"),
                    storageUtilizedDelta),
          numberOfObjectsCounter(params),
          CmdIncrby(generateKey(params, "incomingBytes", timestamp),
                    params.newByteLength.n),
          CmdIncr(generateKey(params, action, timestamp))>>

\* The first batch of _pushMetricCopyObject.
copyObjectCmds(params, timestamp, action) ==
    LET oldObjSize ==
            IF params.oldByteLength.t = "null" THEN 0
            ELSE params.oldByteLength.n
        storageUtilizedDelta == params.newByteLength.n - oldObjSize
    IN  <<CmdIncrby(generateCounter(params, "storageUtilizedCounter"),
                    storageUtilizedDelta),
          numberOfObjectsCounter(params),
          CmdIncr(generateKey(params, action, timestamp))>>

genericPushMetricCmds_IncrCounter(params, timestamp, action) ==
    <<CmdIncr(generateCounter(params, "numberOfObjectsCounter"))>>

\* The one command of _genericPushMetric.
genericPushMetricCmds(params, timestamp, action) ==
    <<CmdIncr(generateKey(params, action, timestamp))>>

pushMetricListBucketMultipartUploadsCmds_PassAction(params, timestamp, action) ==
    genericPushMetricCmds(params, timestamp, action)

\* _pushMetricListBucketMultipartUploads: the generic increment, under the
\* action listBucketMultipartUploads whatever the action it is handed.
pushMetricListBucketMultipartUploadsCmds(params, timestamp, action) ==
    genericPushMetricCmds(params, timestamp, "listBucketMultipartUploads")

\* The older variant of the client: pushMetric hands the caller's params to
\* the dedicated method of the metric, without a fan-out.
\* _generateKeyAndIncrement
generateKeyAndIncrement(params, timestamp, action) ==
    <<CmdIncr(generateKey(params, action, timestamp))>>

\* The command the older variant's methods
\* _pushMetricInitiateMultipartUpload and
\* _pushMetricListBucketMultipartUploads issue.
OlderCmds(metric, params, timestamp) ==
    CASE metric = "initiateMultipartUpload" ->
           generateKeyAndIncrement(params, timestamp,
                                   "initiateMultipartUpload")
      [] metric = "listMultipartUploads" ->
           <<CmdIncr(generateKey(params, "listBucketMultipartUploads",
                                 timestamp))>>

\* The first commands a method issues for one level: a batch, or the one
\* incr of _genericPushMetric.
FirstCmds(metric, params, timestamp) ==
    LET method == methods[metric]
        su == generateStateKey(params, "storageUtilized")
        no == generateStateKey(params, "numberOfObjects")
        suCounter == generateCounter(params, "storageUtilizedCounter")
        noCounter == generateCounter(params, "numberOfObjectsCounter")
        oldObjSize ==
            IF params.oldByteLength.t = "null" THEN 0
            ELSE params.oldByteLength.n
        storageUtilizedDelta == params.newByteLength.n - oldObjSize
    IN
    CASE method = "_pushMetricCreateBucket" ->
           <<CmdSet(getCounters(params)[1], 0),
             CmdSet(getCounters(params)[2], 0),
             CmdZremrangebyscore(su, timestamp),
             CmdZremrangebyscore(no, timestamp),
             CmdZadd(su, timestamp, Num(0)),
             CmdZadd(no, timestamp, Num(0)),
             IF params.bucket # Absent
             THEN CmdSet(generateKey(params, metric, timestamp), 1)
             ELSE CmdIncr(generateKey(params, metric, timestamp))>>
      [] method = "_genericPushMetric" ->
           genericPushMetricCmds(params, timestamp, metric)
      [] method = "_pushMetricListBucketMultipartUploads" ->
           pushMetricListBucketMultipartUploadsCmds(params, timestamp,
                                                    metric)
      [] method = "_pushMetricUploadPart" ->
           <<CmdIncrby(suCounter, params.newByteLength.n),
             CmdIncrby(generateKey(params, "incomingBytes", timestamp),
                       params.newByteLength.n),
             CmdIncr(generateKey(params, metric, timestamp))>>
      [] method = "_pushMetricCompleteMultipartUpload" ->
           <<CmdIncr(noCounter),
             CmdIncr(generateKey(params, metric, timestamp))>>
      [] method = "_genericPushMetricDeleteObject" ->
           <<CmdDecrby(suCounter, params.byteLength.n),
             CmdDecrby(noCounter, params.numberOfObjects.n),
             CmdIncr(generateKey(params, metric, timestamp))>>
      [] method = "_pushMetricGetObject" ->
           <<CmdIncrby(generateKey(params, "outgoingBytes", timestamp),
                       params.newByteLength.n),
             CmdIncr(generateKey(params, metric, timestamp))>>
      [] method = "_pushMetricPutObject" ->
           <<CmdIncrby(suCounter, storageUtilizedDelta),
             numberOfObjectsCounter(params),
             CmdIncrby(generateKey(params, "incomingBytes", timestamp),
                       params.newByteLength.n),
             CmdIncr(generateKey(params, metric, timestamp))>>
      [] method = "_pushMetricCopyObject" ->
           copyObjectCmds(params, timestamp, metric)

ClampedCounter_Unclamped(v) ==
    LET actionCounter == parseInt(v)
    IN  IF actionCounter.nan THEN StrReply(<<"N", "a", "N">>)
        ELSE Num(actionCounter.n)

\* actionCounter = parseInt(v, 10); actionCounter < 0 ? 0 : actionCounter
\* (NaN < 0 is false, so that NaN would be written as it is).
ClampedCounter(v) ==
    LET actionCounter == parseInt(v)
    IN  IF actionCounter.nan THEN StrReply(<<"N", "a", "N">>)
        ELSE IF actionCounter.n < 0 THEN Num(0) ELSE Num(actionCounter.n)

Resample_RemoveOnly(key, timestamp, actionCounter) ==
    <<CmdZremrangebyscore(key, timestamp)>>

\* The re-sampling of a state set: the sample of the interval is replaced.
Resample(key, timestamp, actionCounter) ==
    <<CmdZremrangebyscore(key, timestamp),
      CmdZadd(key, timestamp, actionCounter)>>

AfterFirst_Unchecked(metric, params, timestamp, results) ==
    LET method == methods[metric]
        su == generateStateKey(params, "storageUtilized")
        no == generateStateKey(params, "numberOfObjects")
    IN
    CASE method \in {"_pushMetricCreateBucket", "_pushMetricGetObject"} ->
           [next |-> "ok", cmds |-> <<>>]
      [] method \in {"_genericPushMetric",
                     "_pushMetricListBucketMultipartUploads"} ->
           IF results[1].err THEN [next |-> "err", cmds |-> <<>>]
           ELSE [next |-> "ok", cmds |-> <<>>]
      [] method = "_pushMetricUploadPart" ->
           [next |-> "second",
            cmds |-> Resample(su, timestamp, results[1].val)]
      [] method = "_pushMetricCompleteMultipartUpload" ->
           [next |-> "second",
            cmds |-> Resample(no, timestamp, results[1].val)]
      [] method = "_genericPushMetricDeleteObject" ->
           [next |-> "second",
            cmds |-> Resample(su, timestamp, ClampedCounter(results[1].val))
                     \o Resample(no, timestamp,
                                 ClampedCounter(results[2].val))]
      [] method \in {"_pushMetricPutObject", "_pushMetricCopyObject"} ->
           [next |-> "second",
            cmds |-> Resample(su, timestamp, results[1].val)
                     \o Resample(no, timestamp, results[2].val)]

\* What the callback of a method's first batch, or of the incr of
\* _genericPushMetric, does with the results when the batch did not fail as
\* a whole: nothing more ("ok"), fail with InternalError ("err"), or issue
\* the re-sampling batch.
AfterFirst(metric, params, timestamp, results) ==
    LET method == methods[metric]
        su == generateStateKey(params, "storageUtilized")
        no == generateStateKey(params, "numberOfObjects")
    IN
    CASE method \in {"_pushMetricCreateBucket", "_pushMetricGetObject"} ->
           [next |-> "ok", cmds |-> <<>>]
      [] method \in {"_genericPushMetric",
                     "_pushMetricListBucketMultipartUploads"} ->
           IF results[1].err THEN [next |-> "err", cmds |-> <<>>]
           ELSE [next |-> "ok", cmds |-> <<>>]
      [] method = "_pushMetricUploadPart" ->
           IF results[1].err THEN [next |-> "err", cmds |-> <<>>]
           ELSE [next |-> "second",
                 cmds |-> Resample(su, timestamp, results[1].val)]
      [] method = "_pushMetricCompleteMultipartUpload" ->
           IF results[1].err THEN [next |-> "err", cmds |-> <<>>]
           ELSE [next |-> "second",
                 cmds |-> Resample(no, timestamp, results[1].val)]
      [] method = "_genericPushMetricDeleteObject" ->
           IF results[1].err \/ results[2].err
           THEN [next |-> "err", cmds |-> <<>>]
           ELSE [next |-> "second",
                 cmds |-> Resample(su, timestamp,
                                   ClampedCounter(results[1].val))
                          \o Resample(no, timestamp,
                                      ClampedCounter(results[2].val))]
      [] method \in {"_pushMetricPutObject", "_pushMetricCopyObject"} ->
           IF results[1].err \/ results[2].err
           THEN [next |-> "err", cmds |-> <<>>]
           ELSE [next |-> "second",
                 cmds |-> Resample(su, timestamp, results[1].val)
                          \o Resample(no, timestamp, results[2].val)]

(***************************************************************************)
(* Read path: Buckets.getBucketMetrics.                                    *)
(***************************************************************************)
\* The operations of the metrics record, by the metric their key carries.
OperationNames ==
    [deleteBucket |-> "s3:DeleteBucket",
     listBucket |-> "s3:ListBucket",
     getBucketAcl |-> "s3:GetBucketAcl",
     createBucket |-> "s3:CreateBucket",
     putBucketAcl |-> "s3:PutBucketAcl",
     putObject |-> "s3:PutObject",
     uploadPart |-> "s3:UploadPart",
     listBucketMultipartUploads |-> "s3:ListBucketMultipartUploads",
     listMultipartUploadParts |-> "s3:ListMultipartUploadParts",
     initiateMultipartUpload |-> "s3:InitiateMultipartUpload",
     completeMultipartUpload |-> "s3:CompleteMultipartUpload",
     abortMultipartUpload |-> "s3:AbortMultipartUpload",
     deleteObject |-> "s3:DeleteObject",
     getObject |-> "s3:GetObject",
     getObjectAcl |-> "s3:GetObjectAcl",
     putObjectAcl |-> "s3:PutObjectAcl",
     headBucket |-> "s3:HeadBucket",
     headObject |-> "s3:HeadObject"]

Operations == {OperationNames[m] : m \in DOMAIN OperationNames}

\* The delta metrics a bucket's keys are generated for, in key order.
BucketDeltaMetrics ==
    <<"deleteBucket", "listBucket", "getBucketAcl", "createBucket",
      "putBucketAcl", "putObject", "uploadPart",
      "listBucketMultipartUploads", "listMultipartUploadParts",
      "initiateMultipartUpload", "completeMultipartUpload",
      "abortMultipartUpload", "deleteObject", "getObject", "getObjectAcl",
      "putObjectAcl", "headBucket", "headObject", "incomingBytes",
      "outgoingBytes">>

BucketParams(bucket) == [bucket |-> bucket, accountId |-> Absent,
                         service |-> component]

\* The delta keys of a bucket at one timestamp.
getBucketKeys(bucket, timestamp) ==
    [i \in 1..Len(BucketDeltaMetrics) |->
        generateKey(BucketParams(bucket), BucketDeltaMetrics[i], timestamp)]

genBucketStateKey(bucket, metric) ==
    generateStateKey(BucketParams(bucket), metric)

\* The metric a delta key is about, under the name the record uses.
getMetricFromKey(key, bucket) ==
    IF key.metric \in {"incomingBytes", "outgoingBytes"} THEN key.metric
    ELSE OperationNames[key.metric]

getTimestampRange_HalfOpen(start, end) ==
    LET F[last \in Int] ==
            IF last < end THEN <<last>> \o F[last + IntervalMs] ELSE <<>>
    IN  F[start]

\* Buckets.getTimestampRange: start, start + 15 min, ... below end, and end.
getTimestampRange(start, end) ==
    LET F[last \in Int] ==
            IF last < end THEN <<last>> \o F[last + IntervalMs]
            ELSE <<end>>
    IN  F[start]

RECURSIVE Flatten(_)
Flatten(seqs) ==
    IF seqs = <<>> THEN <<>> ELSE Head(seqs) \o Flatten(Tail(seqs))

ReadCmds_LookupsByTime(bucket, start, end) ==
    LET storageUtilizedKey == genBucketStateKey(bucket, "storageUtilized")
        numberOfObjectsKey == genBucketStateKey(bucket, "numberOfObjects")
        timestampRange == getTimestampRange(start, end)
        bucketKeys == Flatten([i \in 1..Len(timestampRange) |->
                                  getBucketKeys(bucket, timestampRange[i])])
    IN  [i \in 1..Len(bucketKeys) |-> CmdGet(bucketKeys[i])]
        \o <<CmdZrevrangebyscore(storageUtilizedKey, start),
             CmdZrevrangebyscore(numberOfObjectsKey, start),
             CmdZrevrangebyscore(storageUtilizedKey, end),
             CmdZrevrangebyscore(numberOfObjectsKey, end)>>

ReadCmds_Incr(bucket, start, end) ==
    LET storageUtilizedKey == genBucketStateKey(bucket, "storageUtilized")
        numberOfObjectsKey == genBucketStateKey(bucket, "numberOfObjects")
        timestampRange == getTimestampRange(start, end)
        bucketKeys == Flatten([i \in 1..Len(timestampRange) |->
                                  getBucketKeys(bucket, timestampRange[i])])
    IN  [i \in 1..Len(bucketKeys) |-> CmdIncr(bucketKeys[i])]
        \o <<CmdZrevrangebyscore(storageUtilizedKey, start),
             CmdZrevrangebyscore(storageUtilizedKey, end),
             CmdZrevrangebyscore(numberOfObjectsKey, start),
             CmdZrevrangebyscore(numberOfObjectsKey, end)>>

\* The commands of the batch of one bucket.
ReadCmds(bucket, start, end) ==
    LET storageUtilizedKey == genBucketStateKey(bucket, "storageUtilized")
        numberOfObjectsKey == genBucketStateKey(bucket, "numberOfObjects")
        timestampRange == getTimestampRange(start, end)
        bucketKeys == Flatten([i \in 1..Len(timestampRange) |->
                                  getBucketKeys(bucket, timestampRange[i])])
    IN  [i \in 1..Len(bucketKeys) |-> CmdGet(bucketKeys[i])]
        \o <<CmdZrevrangebyscore(storageUtilizedKey, start),
             CmdZrevrangebyscore(storageUtilizedKey, end),
             CmdZrevrangebyscore(numberOfObjectsKey, start),
             CmdZrevrangebyscore(numberOfObjectsKey, end)>>

ParsedOrZero_Inverted(v) ==
    LET val == parseInt(v) IN IF val.nan THEN val.n ELSE 0

\* let val = parseInt(item[1], 10); val = isNaN(val) ? 0 : val
ParsedOrZero(v) == LET val == parseInt(v) IN IF val.nan THEN 0 ELSE val.n

\* The sum of count over the indexes idx.
RECURSIVE SumCounts(_, _)
SumCounts(idx, count) ==
    IF idx = {} THEN 0
    ELSE LET index == CHOOSE i \in idx : TRUE
         IN  count[index] + SumCounts(idx \ {index}, count)

\* The record the callback of the batch builds from the results res: the
\* last four results set the absolutes; of the results before them, each is
\* added to the metric its key is about, so that a metric ends up with the
\* sum of the results of its keys.
FoldMetrics(bucket, start, end, cmds, res) ==
    LET absolutes == SubSeq(res, Len(res) - 3, Len(res))
        deltas == SubSeq(res, 1, Len(res) - 4)
        Abs(i) == IF absolutes[i].err THEN 0
                  ELSE ParsedOrZero(absolutes[i].val)
        m == <<>> \o [index \in 1..Len(deltas) |->
                         getMetricFromKey(cmds[index].key, bucket)]
        count == <<>> \o [index \in 1..Len(deltas) |->
                             IF deltas[index].err THEN 0
                             ELSE ParsedOrZero(deltas[index].val)]
        Total(name) ==
            SumCounts({index \in 1..Len(deltas) : m[index] = name}, count)
    IN  [bucketName |-> bucket,
         timeRange |-> <<start, end>>,
         storageUtilized |-> <<Abs(1), Abs(2)>>,
         incomingBytes |-> Total("incomingBytes"),
         outgoingBytes |-> Total("outgoingBytes"),
         numberOfObjects |-> <<Abs(3), Abs(4)>>,
         operations |-> [o \in Operations |-> Total(o)]]

\* What the store reports to a batch: whether the batch fails as a whole,
\* and the commands that fail on their own.
NoFault == [top |-> FALSE, failed |-> {}]

\* The results of the batch cmds on the store (kv, zs), the commands at the
\* indexes of `failed` failing.
BatchResults(kv, zs, cmds, failed) ==
    <<>> \o [i \in 1..Len(cmds) |->
                IF i \in failed THEN Failed
                ELSE Apply(kv, zs, cmds[i]).reply]

\* The store after the commands of the batch cmds from index i on have run,
\* one after the other; a command that fails leaves the store as it was.
RECURSIVE RunBatch(_, _, _, _, _)
RunBatch(kv, zs, cmds, failed, i) ==
    IF i > Len(cmds) THEN [kv |-> kv, zs |-> zs]
    ELSE LET out == Apply(kv, zs, cmds[i])
         IN  IF i \in failed \/ out.reply.err
             THEN RunBatch(kv, zs, cmds, failed, i + 1)
             ELSE RunBatch(out.kv, out.zs, cmds, failed, i + 1)

RequestFails_OnAnyCommand(err, res) ==
    err \/ \E i \in 1..Len(res) : res[i].err

\* if (err) return cb(errors.InternalError): the request fails when the
\* batch failed as a whole.
RequestFails(err, res) == err

\* Buckets.getBucketMetrics on the store (kv, zs) at wall clock time now,
\* the store reporting `fault`: the batch of reads and the fold of its
\* results, or InternalError.
getBucketMetricsOf(kv, zs, now, bucket, range, fault) ==
    LET start == range[1]
        end == IF range[2] = 0 THEN now ELSE range[2]
        cmds == ReadCmds(bucket, start, end)
        res == BatchResults(kv, zs, cmds, fault.failed)
    IN  IF RequestFails(fault.top, res)
        THEN [err |-> "InternalError", res |-> <<>>]
        ELSE [err |-> "none",
              res |-> FoldMetrics(bucket, start, end, cmds, res)]

\* Buckets.getBucketMetrics on a store that does not fail.
getBucketMetrics(kv, zs, now, bucket, range) ==
    getBucketMetricsOf(kv, zs, now, bucket, range, NoFault).res

(***************************************************************************)
(* State.                                                                  *)
(***************************************************************************)
VARIABLES
    kv,       \* the string keys of the store: running counters, delta keys
    zs,       \* the sorted sets of the store: the state sets
    now,      \* the wall clock
    call,     \* per client: its pushMetric call
    conn,     \* per client: the commands queued on its connection
    rsp,      \* the response of the metrics request answered in this step
    hist,     \* the pushMetric calls made so far, in the order of the calls,
              \* and whether each threw on an assertion
    written,  \* the member last added to each state set at each score
    req       \* the request for the metrics of a list of buckets

vars == <<kv, zs, now, call, conn, rsp, run, hist, written, req>>

Clients == 1..NumClients

Buckets == {"b1"}

Accounts == {"a1"}

\* The sizes events carry.
NewByteLengths == {5}
OldByteLengths == {3}
DeletedByteLengths == {5}
\* The number of objects a deleteObject and a multiObjectDelete event carry.
DeletedObjects(metric) == IF metric = "deleteObject" THEN {1} ELSE {2}

NoNumbers ==
    [byteLength |-> Undefined, newByteLength |-> Undefined,
     oldByteLength |-> Undefined, numberOfObjects |-> Undefined]

\* The params a caller passes with each metric.
ParamsOf(metric) ==
    LET method == methods[metric]
        BucketOnly(numbers) ==
            {[bucket |-> b, accountId |-> Absent, service |-> Absent]
               @@ nn : b \in Buckets, nn \in numbers}
    IN
    CASE method \in {"_pushMetricUploadPart", "_pushMetricGetObject"} ->
           BucketOnly({[NoNumbers EXCEPT !.newByteLength = Num(n)] :
                          n \in NewByteLengths})
      [] method \in {"_pushMetricPutObject", "_pushMetricCopyObject"} ->
           BucketOnly({[NoNumbers EXCEPT !.newByteLength = Num(n),
                                          !.oldByteLength = o] :
                          n \in NewByteLengths,
                          o \in {Null} \cup {Num(k) : k \in OldByteLengths}})
      [] method = "_genericPushMetricDeleteObject" ->
           BucketOnly({[NoNumbers EXCEPT !.byteLength = Num(n),
                                          !.numberOfObjects = Num(k)] :
                          n \in DeletedByteLengths,
                          k \in DeletedObjects(metric)})
      [] method = "_pushMetricCreateBucket" ->
           BucketOnly({NoNumbers})
           \cup {[bucket |-> b, accountId |-> a, service |-> Absent]
                    @@ NoNumbers : b \in Buckets, a \in Accounts}
      [] OTHER -> BucketOnly({NoNumbers})

\* Params that lack a property the method asserts.
BadParamsOf(metric) ==
    IF metric = "putObject"
    THEN {[bucket |-> b, accountId |-> Absent, service |-> Absent]
            @@ [NoNumbers EXCEPT !.newByteLength = Num(n)] :
            b \in Buckets, n \in NewByteLengths}
    ELSE {}

\* A value of the wrong type for every numeric property.
NotANumber == StrReply(<<"5">>)

\* The numeric properties a caller passes with each metric.
NumbersOf(metric) ==
    LET method == methods[metric]
    IN
    CASE method \in {"_pushMetricUploadPart", "_pushMetricGetObject"} ->
           {[NoNumbers EXCEPT !.newByteLength = Num(n)] :
               n \in NewByteLengths}
      [] method \in {"_pushMetricPutObject", "_pushMetricCopyObject"} ->
           {[NoNumbers EXCEPT !.newByteLength = Num(n),
                              !.oldByteLength = o] :
               n \in NewByteLengths,
               o \in {Null} \cup {Num(k) : k \in OldByteLengths}}
      [] method = "_genericPushMetricDeleteObject" ->
           {[NoNumbers EXCEPT !.byteLength = Num(n),
                              !.numberOfObjects = Num(k)] :
               n \in DeletedByteLengths, k \in DeletedObjects(metric)}
      [] OTHER -> {NoNumbers}

\* The numeric properties of NumbersOf with one property the method asserts
\* left out, or of a wrong type.
BadNumbersOf(metric) ==
    LET properties == CheckedProperties(methods[metric])
    IN  {[nn EXCEPT ![properties[i]] = v] :
            nn \in NumbersOf(metric), i \in 1..Len(properties),
            v \in {Undefined, NotANumber}}
        \cup {[nn EXCEPT ![properties[i]] = Null] :
                 nn \in NumbersOf(metric),
                 i \in {k \in 1..Len(properties) :
                           properties[k] # "oldByteLength"}}

\* The level properties a caller passes: any of bucket, accountId and
\* service, or none.
LevelsOf ==
    {[bucket |-> b, accountId |-> a, service |-> sv] :
        b \in Buckets \cup {Absent}, a \in Accounts \cup {Absent},
        sv \in {component, Absent}}

\* Params with any level properties, and numeric properties that pass or
\* fail the method's assertions.
AnyParamsOf(metric) ==
    {l @@ nn : l \in LevelsOf,
               nn \in NumbersOf(metric) \cup BadNumbersOf(metric)}

Idle == [status |-> "idle", metric |-> "", params |-> <<>>, timestamp |-> 0,
         tasks |-> <<>>, cb |-> "none", faults |-> {}]

NoResponse == [status |-> "none"]

\* The final callback of a request that was not called yet.
NotCalled == [calls |-> 0, err |-> "none", results |-> <<>>]

\* No request for the metrics of a list of buckets was made.
NoRequest ==
    [status |-> "none", buckets |-> <<>>, range |-> <<0, 0>>, started |-> 0,
     running |-> {}, results |-> <<>>, done |-> FALSE, cb |-> NotCalled]

InitStore ==
    /\ kv = <<>>
    /\ zs = <<>>
    /\ now = StartOfTime
    /\ call = [c \in Clients |-> Idle]
    /\ conn = [c \in Clients |-> <<>>]
    /\ rsp = NoResponse
    /\ hist = <<>>
    /\ written = <<>>
    /\ req = NoRequest

\* The metrics whose methods write a running counter or a state set.
AbsoluteMetrics ==
    {"createBucket", "uploadPart", "completeMultipartUpload", "putObject",
     "copyObject", "deleteObject", "multiObjectDelete"}

\* The readings of the wall clock.
ClockTimes == {StartOfTime + k * TickMs : k \in 0..MaxTicks}

\* Every client pushes within one interval, and their commands interleave:
\* the first client pushes any event that writes the absolutes, the others
\* put objects.
Init ==
    /\ InitStore
    /\ run = [clients |-> Clients, pushes |-> MaxPushes,
              metrics |-> [c \in Clients |->
                              IF c = 1 THEN AbsoluteMetrics
                              ELSE {"putObject"}],
              clock |-> {StartOfTime}, accounts |-> {},
              config |-> DefaultConfig, anyParams |-> FALSE, faults |-> 0, zone |-> UTCZone]

\* One client pushes events of every kind over several intervals, and
\* metrics are listed between its pushes.
InitRead ==
    /\ InitStore
    /\ run = [clients |-> {1}, pushes |-> MaxPushes,
              metrics |-> [c \in Clients |-> Metrics],
              clock |-> ClockTimes, accounts |-> Accounts,
              config |-> DefaultConfig, anyParams |-> FALSE, faults |-> 0, zone |-> UTCZone]

\* The operation each delta key of an operation counter counts: the
\* operations of the bucket record, and those of the events it leaves out.
OperationOf ==
    OperationNames @@
    [copyObject |-> "s3:CopyObject",
     multiObjectDelete |-> "s3:MultiObjectDelete",
     putBucketWebsite |-> "s3:PutBucketWebsite",
     getBucketWebsite |-> "s3:GetBucketWebsite",
     deleteBucketWebsite |-> "s3:DeleteBucketWebsite"]

\* The metric names delta keys are written under.
DeltaKeyMetrics == DOMAIN OperationOf \cup {"incomingBytes", "outgoingBytes"}

\* The values of the one key of the store.
KeyValues == {1, 12}

\* No client pushes: the store holds the delta key of one metric of one
\* bucket at one interval, and nothing else.
InitKeys ==
    /\ run = [clients |-> {}, pushes |-> 0,
              metrics |-> [c \in Clients |-> {}], clock |-> {},
              accounts |-> {}, config |-> DefaultConfig,
              anyParams |-> FALSE, faults |-> 0, zone |-> UTCZone]
    /\ \E m \in DeltaKeyMetrics, bucket \in Buckets, v \in KeyValues :
          \E T \in {getNormalizedTimestamp(t) : t \in ClockTimes} :
             kv = (generateKey(BucketParams(bucket), m, T) :> v)
    /\ zs = <<>>
    /\ now = StartOfTime
    /\ call = [c \in Clients |-> Idle]
    /\ conn = [c \in Clients |-> <<>>]
    /\ rsp = NoResponse
    /\ hist = <<>>
    /\ written = <<>>
    /\ req = NoRequest

\* The values of the one sample of the store.
SampleValues == {0 - 3, 0, 4}

\* No client pushes: the store holds one sample in one state set of one
\* bucket, and nothing else.
InitSamples ==
    /\ run = [clients |-> {}, pushes |-> 0,
              metrics |-> [c \in Clients |-> {}], clock |-> {},
              accounts |-> {}, config |-> DefaultConfig,
              anyParams |-> FALSE, faults |-> 0, zone |-> UTCZone]
    /\ \E metric \in {"storageUtilized", "numberOfObjects"},
          bucket \in Buckets, v \in SampleValues :
          \E T \in {getNormalizedTimestamp(t) : t \in ClockTimes} :
             zs = (genBucketStateKey(bucket, metric)
                      :> {Entry(T, NumToString(v))})
    /\ kv = <<>>
    /\ now = StartOfTime
    /\ call = [c \in Clients |-> Idle]
    /\ conn = [c \in Clients |-> <<>>]
    /\ rsp = NoResponse
    /\ hist = <<>>
    /\ written = <<>>
    /\ req = NoRequest

(***************************************************************************)
(* Actions.                                                                *)
(***************************************************************************)
Tagged(i, cmds) == [k \in 1..Len(cmds) |-> [task |-> i, cmd |-> cmds[k]]]

NewTask(metric, params, timestamp) ==
    [params |-> params, phase |-> "first",
     need |-> Len(FirstCmds(metric, params, timestamp)), results |-> <<>>]

\* pushMetric(metric, reqUid, params, cb) of client c, called when the wall
\* clock reads t, up to the point where every level's method has queued its
\* first commands.  A disabled client calls back at once.  An assertion of
\* _checkMetricTypes fails before any method runs; an assertion of a
\* method's _checkProperties fails after the methods of the levels before
\* it have queued their commands.
PushMetric(c, metric, params, t) ==
    LET timestamp == getNormalizedTimestamp(t)
        disabled == disableClient
        typesOk == checkMetricTypes(params)
        paramsArray == IF typesOk THEN getParamsArr(params) ELSE <<>>
        failing == {i \in 1..Len(paramsArray) :
                       ~checkProperties(paramsArray[i],
                                        CheckedProperties(methods[metric]))}
        passes == typesOk /\ failing = {}
        reached == IF failing = {} THEN Len(paramsArray)
                   ELSE (CHOOSE i \in failing :
                            \A j \in failing : i <= j) - 1
    IN
    /\ c \in run.clients
    /\ metric \in run.metrics[c]
    /\ params.accountId \in run.accounts \cup {Absent}
    /\ Len(hist) < run.pushes
    /\ t \in run.clock
    /\ t >= now
    /\ now' = t
    /\ call[c].status # "running"
    /\ conn[c] = <<>>
    /\ call' = [call EXCEPT ![c] =
           IF disabled
           THEN [status |-> "done", metric |-> metric, params |-> params,
                 timestamp |-> timestamp, tasks |-> <<>>, cb |-> "ok",
                 faults |-> {}]
           ELSE [status |-> IF passes THEN "running" ELSE "threw",
                 metric |-> metric, params |-> params,
                 timestamp |-> timestamp,
                 tasks |-> IF reached = 0 THEN <<>>
                           ELSE [i \in 1..reached |->
                                    NewTask(metric, paramsArray[i],
                                            timestamp)],
                 cb |-> "none", faults |-> {}]]
    /\ conn' = [conn EXCEPT ![c] =
           IF disabled \/ reached = 0 THEN <<>>
           ELSE Flatten([i \in 1..reached |->
                    Tagged(i, FirstCmds(metric, paramsArray[i], timestamp))])]
    /\ hist' = Append(hist, [client |-> c, metric |-> metric,
                             params |-> params, timestamp |-> timestamp,
                             threw |-> ~disabled /\ ~passes,
                             disabled |-> disabled])
    /\ rsp' = NoResponse
    /\ UNCHANGED <<kv, zs, run, written, req>>

Push ==
    \E c \in run.clients, t \in run.clock :
      \E metric \in run.metrics[c] :
        \E params \in IF run.anyParams THEN AnyParamsOf(metric)
                       ELSE ParamsOf(metric) \cup BadParamsOf(metric) :
            PushMetric(c, metric, params, t)

\* async.each: the final callback is called once, with the first error (the
\* InternalError "err", or the error of the store "storeErr"), or without
\* one when every task has called back.
EachCallback(cb, tasks) ==
    LET erred == {i \in 1..Len(tasks) :
                     tasks[i].phase \in {"err", "storeErr"}}
    IN  IF cb # "none" THEN cb
        ELSE IF erred # {} THEN tasks[CHOOSE i \in erred : TRUE].phase
        ELSE IF \A i \in 1..Len(tasks) : tasks[i].phase = "ok" THEN "ok"
        ELSE "none"

CallTimestamp_Now(c) == getNormalizedTimestamp(now)

\* The timestamp of the call of client c: pushMetric computes it once,
\* before the fan-out, and hands it to the method of every level, whose
\* callbacks use it for the re-sampling batch.
CallTimestamp(c) == call[c].timestamp

\* The callback of a re-sampling batch is the task's callback itself: it
\* gets the error of the store, if any, and looks at no result.
SecondBatchCallback(err) ==
    IF err THEN "storeErr" ELSE "ok"

\* The next command queued on the connection of client c has the outcome
\* out; with the last reply of a batch the batch's callback runs.
Deliver(c, out) ==
    LET i == Head(conn[c]).task
        cmd == Head(conn[c]).cmd
        task == call[c].tasks[i]
        results == Append(task.results, out.reply)
        complete == Len(results) = task.need
        after == IF task.phase = "first"
                 THEN AfterFirst(call[c].metric, task.params,
                                 CallTimestamp(c), results)
                 ELSE [next |-> SecondBatchCallback(FALSE), cmds |-> <<>>]
        task2 == IF ~complete THEN [task EXCEPT !.results = results]
                 ELSE [task EXCEPT !.phase = after.next,
                                   !.need = Len(after.cmds),
                                   !.results = <<>>]
        tasks2 == [call[c].tasks EXCEPT ![i] = task2]
        cb2 == EachCallback(call[c].cb, tasks2)
    IN  /\ kv' = out.kv
        /\ zs' = out.zs
        /\ written' = IF cmd.op = "zadd" /\ ~out.reply.err
                      THEN (<<cmd.key, cmd.score>> :> cmd.member) @@ written
                      ELSE written
        /\ conn' = [conn EXCEPT ![c] =
               IF complete THEN Tail(conn[c]) \o Tagged(i, after.cmds)
               ELSE Tail(conn[c])]
        /\ call' = [call EXCEPT
               ![c].tasks = tasks2,
               ![c].cb = cb2,
               ![c].status = IF cb2 = "none" THEN "running" ELSE "done",
               ![c].faults =
                   IF out.reply.err
                   THEN @ \cup {[kind |-> "command", phase |-> task.phase,
                                 op |-> cmd.op, key |-> cmd.key]}
                   ELSE @]
        /\ rsp' = NoResponse
        /\ UNCHANGED <<now, run, hist, req>>

\* The store executes the next command queued on the connection of client
\* c.
Exec(c) ==
    /\ conn[c] # <<>>
    /\ Deliver(c, Apply(kv, zs, Head(conn[c]).cmd))

\* The next command queued on the connection of client c fails: the store
\* is as it was, and the command's result is an error.
FailCommand(c) ==
    /\ conn[c] # <<>>
    /\ Cardinality(call[c].faults) < run.faults
    /\ Deliver(c, [kv |-> kv, zs |-> zs, reply |-> Failed])

\* The batch of the next command queued on the connection of client c fails
\* as a whole: its remaining commands are not run, and its callback gets
\* the error.  The callback of a first batch calls back with InternalError.
\* The incr of _genericPushMetric is a command of its own, not a batch.
FailBatch(c) ==
    /\ conn[c] # <<>>
    /\ Cardinality(call[c].faults) < run.faults
    /\ methods[call[c].metric] \notin
           {"_genericPushMetric", "_pushMetricListBucketMultipartUploads"}
    /\ LET i == Head(conn[c]).task
           task == call[c].tasks[i]
           task2 == [task EXCEPT
                        !.phase = IF task.phase = "first" THEN "err"
                                  ELSE SecondBatchCallback(TRUE),
                        !.need = 0, !.results = <<>>]
           tasks2 == [call[c].tasks EXCEPT ![i] = task2]
           cb2 == EachCallback(call[c].cb, tasks2)
       IN  /\ conn' = [conn EXCEPT ![c] =
                  SelectSeq(conn[c], LAMBDA e : e.task # i)]
           /\ call' = [call EXCEPT
                  ![c].tasks = tasks2,
                  ![c].cb = cb2,
                  ![c].status = IF cb2 = "none" THEN "running" ELSE "done",
                  ![c].faults = @ \cup {[kind |-> "batch",
                                         phase |-> task.phase,
                                         op |-> "exec",
                                         key |-> Head(conn[c]).cmd.key]}]
    /\ rsp' = NoResponse
    /\ UNCHANGED <<kv, zs, written, now, run, hist, req>>

Step == \E c \in Clients : Exec(c)

Fault == \E c \in Clients : FailCommand(c) \/ FailBatch(c)

\* The times a metrics request names.
QueryTimes ==
    {StartOfTime - 1, StartOfTime, StartOfTime + 1, StartOfTime + TickMs,
     StartOfTime + IntervalMs, StartOfTime + 2 * IntervalMs}

\* What the store may report to the batch of a request: nothing, a failure
\* of the batch as a whole, or the failure of one of its commands.
ReadFaults(bucket, start, end) ==
    IF run.faults = 0 THEN {NoFault}
    ELSE {NoFault, [top |-> TRUE, failed |-> {}]}
         \cup {[top |-> FALSE, failed |-> {i}] :
                  i \in 1..Len(ReadCmds(bucket, start, end))}

\* A ListMetrics request for one bucket is answered: its batch of reads is
\* applied to the store in one step, at a moment when no push is in flight
\* (a listing that overlaps a push is outside this model).  Requests are
\* answered one at a time, each from the state the last push left.
ListMetrics ==
    \E bucket \in Buckets, start \in QueryTimes, end \in QueryTimes :
        \E fault \in ReadFaults(bucket, start, end) :
            LET out == getBucketMetricsOf(kv, zs, now, bucket,
                                          <<start, end>>, fault)
            IN  /\ start <= end
                /\ rsp = NoResponse
                /\ \A c \in Clients :
                      call[c].status # "running" /\ conn[c] = <<>>
                /\ rsp' = [status |-> IF out.err = "none" THEN "ok"
                                      ELSE "err",
                           bucket |-> bucket, range |-> <<start, end>>,
                           res |-> out.res, error |-> out.err,
                           fault |-> fault]
                /\ UNCHANGED <<kv, zs, now, call, conn, run, hist, written,
                               req>>

\* The number of buckets whose batches are outstanding at a time:
\* async.mapLimit(buckets, 5, ...).
Limit == 5

\* once(callback) of async: the final callback of the request runs the
\* first time it is called, with the error and the array of results as
\* they are at that moment.
once(cb, err, results) ==
    IF cb.calls > 0 THEN cb
    ELSE [calls |-> 1, err |-> err, results |-> results]

\* replenish() of async's eachOfLimit, on the request r: the batches of the
\* next buckets of the list are started while fewer than Limit are
\* outstanding; when the list is exhausted the request is done, and the
\* final callback is called if no batch is outstanding.
replenish(r) ==
    LET n == Len(r.buckets)
        room == Limit - Cardinality(r.running)
        remaining == n - r.started
    IN  IF r.done \/ room <= 0 THEN r
        ELSE IF remaining < room
        THEN LET running == r.running \cup ((r.started + 1)..n)
             IN  [r EXCEPT !.started = n, !.running = running,
                           !.done = TRUE,
                           !.cb = IF running = {}
                                  THEN once(r.cb, "none", r.results)
                                  ELSE r.cb]
        ELSE [r EXCEPT !.started = r.started + room,
                       !.running = r.running
                           \cup ((r.started + 1)..(r.started + room))]

\* The callback async.mapLimit hands to the iteratee of the bucket at index
\* i, called with the outcome `out` of Buckets.getBucketMetrics: the result
\* is stored at index i (undefined with an error); an error ends the
\* request and is handed to the final callback, with the array of results.
iterateeCallback(r, i, out) ==
    LET v == IF out.err # "none" THEN Undefined ELSE out.res
        results == (i :> v) @@ r.results
        r1 == [r EXCEPT !.results = results, !.running = @ \ {i}]
    IN  IF out.err # "none"
        THEN [r1 EXCEPT !.done = TRUE,
                        !.cb = once(r1.cb, out.err, results)]
        ELSE IF r1.done /\ r1.running = {}
        THEN [r1 EXCEPT !.cb = once(r1.cb, "none", results)]
        ELSE replenish(r1)

\* Buckets.getBucketsMetrics: a request for the metrics of the buckets of a
\* list over a time range is made, and the batches of its first buckets are
\* started.
GetBucketsMetrics(buckets, range) ==
    /\ req.status = "none"
    /\ range[1] <= range[2]
    /\ req' = replenish([NoRequest EXCEPT !.status = "made",
                                          !.buckets = buckets,
                                          !.range = range])
    /\ UNCHANGED <<kv, zs, now, call, conn, rsp, run, hist, written>>

\* What the store may report to a batch of a request for a list of
\* buckets: nothing, or a failure of the batch as a whole, as long as the
\* store has failed fewer than run.faults batches of the request.
ListFaults ==
    IF Cardinality({i \in DOMAIN req.results : req.results[i] = Undefined})
           < run.faults
    THEN {NoFault, [top |-> TRUE, failed |-> {}]}
    ELSE {NoFault}

\* The batch of the bucket at index i of the request returns: the store has
\* run its commands, unless the batch fails as a whole, and the callback of
\* the batch hands the record, or InternalError, to async.
BatchReturns(i) ==
    /\ i \in req.running
    /\ \E fault \in ListFaults :
          LET bucket == req.buckets[i]
              cmds == ReadCmds(bucket, req.range[1], req.range[2])
              ran == RunBatch(kv, zs, cmds, fault.failed, 1)
              out == getBucketMetricsOf(kv, zs, now, bucket, req.range,
                                        fault)
          IN  /\ kv' = IF fault.top THEN kv ELSE ran.kv
              /\ zs' = IF fault.top THEN zs ELSE ran.zs
              /\ req' = iterateeCallback(req, i, out)
    /\ UNCHANGED <<now, call, conn, rsp, run, hist, written>>

Return == \E i \in req.running : BatchReturns(i)

\* The buckets a request lists: b1 occurs twice.
ListedBuckets == <<"b1", "b2", "b3", "b4", "b5", "b6", "b1">>

\* The lists of buckets of the requests: none, the first one, two, six or
\* seven buckets of ListedBuckets, and two buckets in reverse order.
RequestLists ==
    {SubSeq(ListedBuckets, 1, n) : n \in {0, 1, 2, 6, 7}}
        \cup {<<"b2", "b1">>}

\* The time ranges of the requests for a list of buckets.
ListRanges ==
    {<<StartOfTime, StartOfTime>>, <<StartOfTime, StartOfTime + IntervalMs>>}

\* A request for the metrics of a list of buckets is made.
List ==
    \E buckets \in RequestLists, range \in ListRanges :
        GetBucketsMetrics(buckets, range)

Next == Push \/ Step

NextRead == Push \/ Step \/ ListMetrics

\* Concurrent clients.
Spec == Init /\ [][Next]_vars

\* The metrics a configured client pushes.
ConfigMetrics ==
    {"headObject", "getObject", "putObject", "copyObject", "deleteObject",
     "multiObjectDelete", "createBucket", "uploadPart"}

\* The number of pushes of a configured client.
ConfigPushes == 1

\* One client of any configuration pushes events that carry any params.
InitConfig ==
    /\ InitStore
    /\ \E config \in Configs :
          run = [clients |-> {1}, pushes |-> ConfigPushes,
                 metrics |-> [c \in Clients |-> ConfigMetrics],
                 clock |-> {StartOfTime}, accounts |-> Accounts,
                 config |-> config, anyParams |-> TRUE, faults |-> 0, zone |-> UTCZone]

\* A client of any configuration.
SpecConfig == InitConfig /\ [][Next]_vars

\* The metrics a client pushes to a store that fails.
FaultMetrics ==
    {"createBucket", "headObject", "listMultipartUploads", "getObject",
     "uploadPart", "completeMultipartUpload", "putObject", "copyObject",
     "deleteObject"}

\* The number of failures the store reports to one call.
MaxFaults == 2

\* One client pushes one event, and the store may fail.
InitFaults ==
    /\ InitStore
    /\ run = [clients |-> {1}, pushes |-> 1,
              metrics |-> [c \in Clients |-> FaultMetrics],
              clock |-> {StartOfTime}, accounts |-> {},
              config |-> DefaultConfig, anyParams |-> FALSE,
              faults |-> MaxFaults, zone |-> UTCZone]

NextFaults == Push \/ Step \/ Fault

\* A store that fails.
SpecFaults == InitFaults /\ [][NextFaults]_vars

\* A store that fails, and that runs every command queued on a connection
\* in the end.
SpecFaultsLive == SpecFaults /\ WF_vars(Step)

\* The lists of buckets of the requests made while events are pushed.
FewLists == {<<"b1">>, <<"b1", "b2">>}

\* A request for the metrics of one or two buckets is made.
ListFew ==
    \E buckets \in FewLists, range \in ListRanges :
        GetBucketsMetrics(buckets, range)

\* The events pushed while a request is answered.
MixedMetrics == {"putObject", "getObject", "deleteObject"}

\* One client pushes events of the bucket b1 while a request for the
\* metrics of a list of buckets is answered by a store whose read batches
\* may fail.
InitMixed ==
    /\ InitStore
    /\ run = [clients |-> {1}, pushes |-> 1,
              metrics |-> [c \in Clients |-> MixedMetrics],
              clock |-> {StartOfTime}, accounts |-> {},
              config |-> DefaultConfig, anyParams |-> FALSE,
              faults |-> 1, zone |-> UTCZone]

NextMixed == Push \/ Step \/ ListFew \/ Return

SpecMixed == InitMixed /\ [][NextMixed]_vars

\* The buckets of the account a1.
AccountBuckets == {"b1", "b2"}

\* The events that change the running counters of a resource.
OwnedMetrics ==
    {"createBucket", "putObject", "copyObject", "uploadPart", "deleteObject",
     "multiObjectDelete"}

\* The number of events pushed for the buckets of the account.
OwnedPushes == 3

\* The params of an event of a bucket of the account a1: the bucket and the
\* account are both named.
OwnedParamsOf(metric) ==
    {[bucket |-> b, accountId |-> "a1", service |-> Absent] @@ nn :
        b \in AccountBuckets, nn \in NumbersOf(metric)}

\* pushMetric is called with an event of a bucket of the account.
PushOwned ==
    \E c \in run.clients, t \in run.clock :
      \E metric \in run.metrics[c] :
        \E params \in OwnedParamsOf(metric) :
            PushMetric(c, metric, params, t)

\* One client, whose configuration records every level, pushes the events
\* of the two buckets of an account.
InitOwned ==
    /\ InitStore
    /\ run = [clients |-> {1}, pushes |-> OwnedPushes,
              metrics |-> [c \in Clients |-> OwnedMetrics],
              clock |-> {StartOfTime}, accounts |-> {"a1"},
              config |-> DefaultConfig, anyParams |-> FALSE,
              faults |-> 0, zone |-> UTCZone]

NextOwned == PushOwned \/ Step

SpecOwned == InitOwned /\ [][NextOwned]_vars

\* The events whose method updates running counters in a first batch and
\* re-samples the state sets in a second one.
TwoPhaseMetrics ==
    {"uploadPart", "completeMultipartUpload", "putObject", "copyObject",
     "deleteObject", "multiObjectDelete"}

\* The samples the state sets of the bucket and of the service hold before
\* the push, at the interval of the push.
StoredSamples ==
    LET levels == getParamsArr([bucket |-> "b1", accountId |-> Absent,
                                service |-> Absent] @@ NoNumbers)
        keys == {generateStateKey(levels[i], m) :
                    i \in DOMAIN levels,
                    m \in {"storageUtilized", "numberOfObjects"}}
    IN  [k \in keys |-> {Entry(StartOfTime, <<"7">>)}]

\* One client pushes one event that re-samples state sets which hold a
\* sample, and the store may fail.
InitTwoPhase ==
    /\ run = [clients |-> {1}, pushes |-> 1,
              metrics |-> [c \in Clients |-> TwoPhaseMetrics],
              clock |-> {StartOfTime}, accounts |-> {},
              config |-> DefaultConfig, anyParams |-> FALSE,
              faults |-> MaxFaults, zone |-> UTCZone]
    /\ kv = <<>>
    /\ zs = StoredSamples
    /\ now = StartOfTime
    /\ call = [c \in Clients |-> Idle]
    /\ conn = [c \in Clients |-> <<>>]
    /\ rsp = NoResponse
    /\ hist = <<>>
    /\ written = <<>>
    /\ req = NoRequest

SpecTwoPhase == InitTwoPhase /\ [][NextFaults]_vars

\* The store holds delta keys of a bucket at two intervals and a sample in
\* each of its state sets, and may fail when it is read.
InitReadFaults ==
    /\ \E bucket \in Buckets, v \in KeyValues :
          LET p == BucketParams(bucket)
          IN  /\ kv = (generateKey(p, "putObject", StartOfTime) :> v)
                      @@ (generateKey(p, "incomingBytes", StartOfTime) :> 5)
                      @@ (generateKey(p, "putObject",
                                      StartOfTime + IntervalMs) :> 2)
                      @@ (generateKey(p, "getObject",
                                      StartOfTime + IntervalMs) :> 1)
              /\ zs = (genBucketStateKey(bucket, "storageUtilized")
                          :> {Entry(StartOfTime, <<"5">>)})
                      @@ (genBucketStateKey(bucket, "numberOfObjects")
                             :> {Entry(StartOfTime, NumToString(v))})
    /\ now = StartOfTime
    /\ call = [c \in Clients |-> Idle]
    /\ conn = [c \in Clients |-> <<>>]
    /\ rsp = NoResponse
    /\ hist = <<>>
    /\ written = <<>>
    /\ req = NoRequest
    /\ run = [clients |-> {}, pushes |-> 0,
              metrics |-> [c \in Clients |-> {}], clock |-> {},
              accounts |-> {}, config |-> DefaultConfig,
              anyParams |-> FALSE, faults |-> 1, zone |-> UTCZone]

\* Metrics requests on a store that fails.
SpecReadFaults == InitReadFaults /\ [][ListMetrics]_vars

\* The time zones of the process: UTC, a zone 5 h 45 min ahead of UTC, and
\* a zone 1 h ahead of UTC whose daylight saving time, 2 h ahead, ends two
\* hours after StartOfTime, for either reading of a repeated local time.
Zones ==
    {UTCZone,
     [std |-> 345 * MsPerMinute, dst |-> 345 * MsPerMinute, ends |-> 0,
      repeated |-> "earlier"]}
    \cup {[std |-> 60 * MsPerMinute, dst |-> 120 * MsPerMinute,
           ends |-> StartOfTime + 120 * MsPerMinute, repeated |-> r] :
             r \in {"earlier", "later"}}

\* The readings of the wall clock over four hours: every fifth minute, 1 ms
\* before and after it, and 7 min after it.
WallClockTimes ==
    {StartOfTime + k * 5 * MsPerMinute + d :
        k \in 0..47, d \in {0 - 1, 0, 1, 7 * MsPerMinute}}

\* One client pushes one event at any time, in any time zone.
InitTime ==
    /\ InitStore
    /\ \E zone \in Zones :
          run = [clients |-> {1}, pushes |-> 1,
                 metrics |-> [c \in Clients |-> {"headObject"}],
                 clock |-> WallClockTimes, accounts |-> {},
                 config |-> DefaultConfig, anyParams |-> FALSE,
                 faults |-> 0, zone |-> zone]

\* Any wall clock time.
SpecTime == InitTime /\ [][Next]_vars

\* The store holds delta keys and samples of the buckets b1 and b2, and may
\* fail the batches of a request for a list of buckets.
InitList ==
    /\ kv = (generateKey(BucketParams("b1"), "putObject", StartOfTime) :> 2)
            @@ (generateKey(BucketParams("b2"), "getObject", StartOfTime)
                   :> 1)
    /\ zs = (genBucketStateKey("b1", "storageUtilized")
                :> {Entry(StartOfTime, <<"5">>)})
    /\ now = StartOfTime
    /\ call = [c \in Clients |-> Idle]
    /\ conn = [c \in Clients |-> <<>>]
    /\ rsp = NoResponse
    /\ hist = <<>>
    /\ written = <<>>
    /\ req = NoRequest
    /\ run = [clients |-> {}, pushes |-> 0,
              metrics |-> [c \in Clients |-> {}], clock |-> {},
              accounts |-> {}, config |-> DefaultConfig,
              anyParams |-> FALSE, faults |-> MaxFaults, zone |-> UTCZone]

NextList == List \/ Return

\* Requests for the metrics of a list of buckets, on a store that may fail.
SpecList == InitList /\ [][NextList]_vars

\* Two clients push while the wall clock advances: the first events that
\* re-sample a state set, the second events that do not.
InitClock ==
    /\ InitStore
    /\ run = [clients |-> Clients, pushes |-> MaxPushes,
              metrics |-> [c \in Clients |->
                              IF c = 1
                              THEN {"putObject", "deleteObject", "uploadPart"}
                              ELSE {"headObject", "getObject"}],
              clock |-> ClockTimes, accounts |-> {},
              config |-> DefaultConfig, anyParams |-> FALSE, faults |-> 0,
              zone |-> UTCZone]

\* Concurrent clients and a wall clock that advances.
SpecClock == InitClock /\ [][Next]_vars

\* One client, and metrics requests between its pushes.
SpecRead == InitRead /\ [][NextRead]_vars

\* A store that holds one delta key of a bucket, and metrics requests.
SpecKeys == InitKeys /\ [][ListMetrics]_vars

\* A store that holds one sample of a bucket, and metrics requests.
SpecSamples == InitSamples /\ [][ListMetrics]_vars

(***************************************************************************)
(* Properties.                                                             *)
(***************************************************************************)
\* No call is in flight: every call has called back and no command is
\* queued.
Quiescent ==
    \A c \in Clients : call[c].status # "running" /\ conn[c] = <<>>

\* The entries of state set `key` at score T.
SamplesAt(key, T) == {e \in ZGet(zs, key) : e.score = T}

\* Call i of the history put a new object (oldByteLength = null).
PutOfNewObject(i) ==
    /\ hist[i].metric = "putObject"
    /\ ~hist[i].threw
    /\ hist[i].params.oldByteLength = Null

RECURSIVE SumOfNewByteLengths(_)
SumOfNewByteLengths(h) ==
    IF h = <<>> THEN 0
    ELSE Head(h).params.newByteLength.n + SumOfNewByteLengths(Tail(h))

\* Two clients each made one putObject call of a new object, on the same
\* bucket and in the same interval.
ConcurrentPuts ==
    /\ Len(hist) = 2
    /\ hist[1].client # hist[2].client
    /\ PutOfNewObject(1) /\ PutOfNewObject(2)
    /\ hist[1].params.bucket = hist[2].params.bucket
    /\ hist[1].timestamp = hist[2].timestamp

\* C1: once two concurrent putObject calls of new objects on one bucket in
\* one interval T have completed, under every interleaving of their store
\* commands, the bucket's storageUtilized counter is the sum of the two
\* sizes, the storageUtilized state set holds that sum as its one sample
\* at score T, and the putObject counter of T is 2.
C1_ConcurrentPutObjects ==
    (ConcurrentPuts /\ Quiescent) =>
        LET p == BucketParams(hist[1].params.bucket)
            T == hist[1].timestamp
            total == SumOfNewByteLengths(hist)
        IN  /\ StrGet(kv, generateCounter(p, "storageUtilizedCounter")) = total
            /\ SamplesAt(generateStateKey(p, "storageUtilized"), T)
                   = {Entry(T, NumToString(total))}
            /\ StrGet(kv, generateKey(p, "putObject", T)) = 2

\* C2: in every reachable state, each state set of each resource holds at
\* most one entry per score.
C2_OneSamplePerScore ==
    \A key \in DOMAIN zs :
        \A e \in zs[key], f \in zs[key] : e.score = f.score => e = f

\* C3: once a sequence of putObject calls of new objects on a fresh bucket
\* has completed, the bucket's storageUtilized counter is the sum of their
\* newByteLength and its numberOfObjects counter is their number.
C3_CountersOfNewObjects ==
    (Quiescent /\ \A i \in 1..Len(hist) : PutOfNewObject(i)) =>
        \A bucket \in Buckets :
            /\ StrGet(kv, generateCounter(BucketParams(bucket),
                                          "storageUtilizedCounter"))
                   = SumOfNewByteLengths(hist)
            /\ StrGet(kv, generateCounter(BucketParams(bucket),
                                          "numberOfObjectsCounter"))
                   = Len(hist)

C3_Witness ==
    /\ Quiescent
    /\ Len(hist) >= 2
    /\ \A i \in 1..Len(hist) : PutOfNewObject(i)
    /\ hist[1].client # hist[2].client
    /\ StrGet(kv, generateCounter(BucketParams("b1"),
                                  "numberOfObjectsCounter")) = Len(hist)

\* A metrics request was answered in this step.
Answered == rsp.status = "ok"

\* The response reports value v for the delta metric written under m.
Reports(res, m, v) ==
    IF m \in {"incomingBytes", "outgoingBytes"} THEN res[m] = v
    ELSE /\ OperationOf[m] \in DOMAIN res.operations
         /\ res.operations[OperationOf[m]] = v

\* The response reports a value for the delta metric written under m.
Returned(res, m) ==
    \/ m \in {"incomingBytes", "outgoingBytes"}
    \/ OperationOf[m] \in DOMAIN res.operations

\* The delta call h of the history pushes for the metric written under m.
DeltaOf(h, m) ==
    IF h.threw THEN 0
    ELSE IF m = "incomingBytes"
    THEN (IF h.metric \in {"putObject", "uploadPart"}
          THEN h.params.newByteLength.n ELSE 0)
    ELSE IF m = "outgoingBytes"
    THEN (IF h.metric = "getObject" THEN h.params.newByteLength.n ELSE 0)
    ELSE IF h.metric = "listMultipartUploads"
    THEN (IF m = "listBucketMultipartUploads" THEN 1 ELSE 0)
    ELSE IF h.metric = m THEN 1 ELSE 0

\* The sum of the deltas for m pushed, on the bucket, by the calls from call
\* i on whose interval is one of `times`.
RECURSIVE SumPushed(_, _, _, _)
SumPushed(m, bucket, times, i) ==
    IF i > Len(hist) THEN 0
    ELSE (IF hist[i].params.bucket = bucket /\ hist[i].timestamp \in times
          THEN DeltaOf(hist[i], m) ELSE 0)
         + SumPushed(m, bucket, times, i + 1)

\* The intervals calls were made in.
PushedTimes == {hist[i].timestamp : i \in 1..Len(hist)}

\* start, start + 15 min, ... below end, and end.
ReadTimes(start, end) ==
    {start + k * IntervalMs : k \in 0..((end - start) \div IntervalMs)}
        \cup {end}

\* What the delta key of m at interval T holds after the calls of the
\* history: the sum of the deltas pushed, a bucket's createBucket key being
\* set to 1 by each createBucket.
Recorded(m, bucket, T) ==
    IF m = "createBucket"
    THEN (IF SumPushed(m, bucket, {T}, 1) > 0 THEN 1 ELSE 0)
    ELSE SumPushed(m, bucket, {T}, 1)

RECURSIVE SumRecorded(_, _, _)
SumRecorded(m, bucket, times) ==
    IF times = {} THEN 0
    ELSE LET T == CHOOSE t \in times : TRUE
         IN  Recorded(m, bucket, T) + SumRecorded(m, bucket, times \ {T})

\* createBucket, then putObject of a new object on the same bucket in the
\* same interval T0, then a metrics request for [T0, T0 + 15 min].
C4_Scenario ==
    /\ Len(hist) = 2
    /\ hist[1].metric = "createBucket"
    /\ PutOfNewObject(2)
    /\ hist[1].params.bucket = hist[2].params.bucket
    /\ hist[1].timestamp = hist[2].timestamp
    /\ Answered
    /\ rsp.bucket = hist[1].params.bucket
    /\ rsp.range = <<hist[1].timestamp, hist[1].timestamp + IntervalMs>>

\* C4 as stated: after createBucket and putObject (n bytes, new object) in
\* one interval T0, ListMetrics over [T0, T0 + 15 min] returns
\* storageUtilized = [0, n], numberOfObjects = [0, 1], incomingBytes = n,
\* s3:CreateBucket = 1 and s3:PutObject = 1.
C4_Orig ==
    C4_Scenario =>
        /\ rsp.res.storageUtilized = <<0, hist[2].params.newByteLength.n>>
        /\ rsp.res.numberOfObjects = <<0, 1>>
        /\ rsp.res.incomingBytes = hist[2].params.newByteLength.n
        /\ rsp.res.operations["s3:CreateBucket"] = 1
        /\ rsp.res.operations["s3:PutObject"] = 1

\* C4, amended: after createBucket and putObject (n bytes, new object) in
\* one interval T0, ListMetrics over [T0, T0 + 15 min] returns
\* storageUtilized = [n, n], numberOfObjects = [1, 1], incomingBytes = n,
\* s3:CreateBucket = 1 and s3:PutObject = 1: the sample of T0 is the one the
\* putObject wrote, and the lookup at start = T0 includes it.
C4_CreateThenPut ==
    C4_Scenario =>
        /\ rsp.res.storageUtilized = <<hist[2].params.newByteLength.n,
                                       hist[2].params.newByteLength.n>>
        /\ rsp.res.numberOfObjects = <<1, 1>>
        /\ rsp.res.incomingBytes = hist[2].params.newByteLength.n
        /\ rsp.res.operations["s3:CreateBucket"] = 1
        /\ rsp.res.operations["s3:PutObject"] = 1

C4_Witness == C4_Scenario /\ rsp.res.storageUtilized[2] > 0

\* The value of the sample last written to state set `key` at the greatest
\* score <= t, or 0 when none was written.
LastWritten(key, t) ==
    LET scores == {q[2] : q \in {r \in DOMAIN written :
                                    r[1] = key /\ r[2] <= t}}
    IN  IF scores = {} THEN 0
        ELSE LET last == CHOOSE x \in scores : \A y \in scores : y <= x
             IN  ParsedOrZero(StrReply(written[<<key, last>>]))

\* C5: for every query [start, end], storageUtilized[0] is the most recent
\* sample written at a score <= start, or 0 if none was written; likewise
\* numberOfObjects[0], and index 1 with end in place of start.
C5_NearestSample ==
    Answered =>
        LET su == genBucketStateKey(rsp.bucket, "storageUtilized")
            no == genBucketStateKey(rsp.bucket, "numberOfObjects")
        IN  /\ rsp.res.storageUtilized
                   = <<LastWritten(su, rsp.range[1]),
                       LastWritten(su, rsp.range[2])>>
            /\ rsp.res.numberOfObjects
                   = <<LastWritten(no, rsp.range[1]),
                       LastWritten(no, rsp.range[2])>>

\* C6: a store command of a re-sampling write at score T leaves every entry
\* of the state set whose score differs from T in the set.
C6_ResampleFrame ==
    [][\A key \in DOMAIN zs : \A e \in zs[key] :
          \/ \E c \in Clients :
                /\ conn[c] # <<>>
                /\ Head(conn[c]).cmd.key = key
                /\ Head(conn[c]).cmd.score = e.score
          \/ e \in ZGet(zs', key)]_vars

EqualPairs(res) ==
    /\ res.storageUtilized[1] = res.storageUtilized[2]
    /\ res.numberOfObjects[1] = res.numberOfObjects[2]

\* C8 as stated: a query with start = end returns 0 for every delta metric
\* and absolute pairs of two equal entries.
C8_Orig ==
    (Answered /\ rsp.range[1] = rsp.range[2]) =>
        /\ \A m \in DeltaKeyMetrics :
               Returned(rsp.res, m) => Reports(rsp.res, m, 0)
        /\ EqualPairs(rsp.res)

\* C8, amended: a query with start = end returns, for every delta metric it
\* reports, the value the store holds under the metric's key of the
\* interval start, and absolute pairs of two equal entries.
C8_ZeroLengthQuery ==
    (Answered /\ rsp.range[1] = rsp.range[2]) =>
        /\ \A m \in DeltaKeyMetrics :
               Returned(rsp.res, m) =>
                   Reports(rsp.res, m,
                           StrGet(kv, generateKey(BucketParams(rsp.bucket),
                                                  m, rsp.range[1])))
        /\ EqualPairs(rsp.res)

C8_Witness ==
    /\ Answered
    /\ rsp.range[1] = rsp.range[2]
    /\ rsp.res.operations["s3:HeadObject"] > 0
    /\ rsp.res.storageUtilized[1] > 0

\* C9: when the store holds the delta key of metric m at interval T, with
\* value v, and no other key, a query over [T, T] returns v for m and 0 for
\* every other delta metric.
C9_SingleKey ==
    (Answered /\ rsp.range[1] = rsp.range[2]) =>
        \A m \in DeltaKeyMetrics :
            LET key == generateKey(BucketParams(rsp.bucket), m, rsp.range[1])
            IN  DOMAIN kv = {key} =>
                    /\ Reports(rsp.res, m, kv[key])
                    /\ \A o \in DeltaKeyMetrics \ {m} :
                           Returned(rsp.res, o) => Reports(rsp.res, o, 0)

\* C10: in every reachable state, every value stored in a storageUtilized
\* or numberOfObjects state set is >= 0.
C10_SamplesNonNegative ==
    \A key \in DOMAIN zs :
        \A e \in zs[key] : parseIntStr(e.member).n >= 0

\* C11: every entry of storageUtilized and numberOfObjects of a record
\* ListMetrics returns is >= 0, whatever the state sets hold.
C11_AbsolutesNonNegative ==
    Answered =>
        \A i \in 1..2 : /\ rsp.res.storageUtilized[i] >= 0
                        /\ rsp.res.numberOfObjects[i] >= 0

\* The state sets the method of `metric` re-samples for the params of one
\* level.
StateKeysOf(metric, params) ==
    LET method == methods[metric]
        su == generateStateKey(params, "storageUtilized")
        no == generateStateKey(params, "numberOfObjects")
    IN  CASE method = "_pushMetricUploadPart" -> {su}
          [] method = "_pushMetricCompleteMultipartUpload" -> {no}
          [] method \in {"_genericPushMetricDeleteObject",
                         "_pushMetricPutObject", "_pushMetricCopyObject"} ->
               {su, no}
          [] OTHER -> {}

\* C12: once a pushMetric call has completed its re-sampling write of a
\* state set at interval T, the set holds an entry at score T in every
\* state a reader command can run in, whatever the commands of the other
\* writers of T that ran in between.
C12_NeverEmptyAtT ==
    \A c \in Clients :
        (call[c].status = "done" /\ call[c].cb = "ok") =>
            \A i \in 1..Len(call[c].tasks) :
                \A key \in StateKeysOf(call[c].metric,
                                       call[c].tasks[i].params) :
                    SamplesAt(key, call[c].timestamp) # {}

\* Call h updates the running counter of the absolute `metric`.
UpdatesCounter(h, metric) ==
    /\ ~h.threw
    /\ LET method == methods[h.metric]
       IN  IF metric = "storageUtilized"
           THEN method \in {"_pushMetricCreateBucket", "_pushMetricUploadPart",
                            "_genericPushMetricDeleteObject",
                            "_pushMetricPutObject", "_pushMetricCopyObject"}
           ELSE \/ method \in {"_pushMetricCreateBucket",
                                "_pushMetricCompleteMultipartUpload",
                                "_genericPushMetricDeleteObject"}
                \/ /\ method \in {"_pushMetricPutObject",
                                   "_pushMetricCopyObject"}
                   /\ h.params.oldByteLength = Null

\* What call h adds to the running counter of the absolute `metric`
\* (createBucket sets it to 0).
CounterDelta(h, metric) ==
    LET method == methods[h.metric]
    IN  CASE method = "_pushMetricCreateBucket" -> 0
          [] method = "_genericPushMetricDeleteObject" ->
               IF metric = "storageUtilized" THEN 0 - h.params.byteLength.n
               ELSE 0 - h.params.numberOfObjects.n
          [] method = "_pushMetricUploadPart" -> h.params.newByteLength.n
          [] method = "_pushMetricCompleteMultipartUpload" -> 1
          [] OTHER ->
               IF metric = "numberOfObjects" THEN 1
               ELSE h.params.newByteLength.n
                    - (IF h.params.oldByteLength = Null THEN 0
                       ELSE h.params.oldByteLength.n)

RECURSIVE SumOfDeltas(_, _)
SumOfDeltas(calls, metric) ==
    IF calls = {} THEN 0
    ELSE LET i == CHOOSE j \in calls : TRUE
         IN  CounterDelta(hist[i], metric)
             + SumOfDeltas(calls \ {i}, metric)

\* The values the counter of `metric` holds after an update in some serial
\* order of the calls of the history.
SerialCounterValues(metric) ==
    {SumOfDeltas(calls, metric) :
        calls \in (SUBSET (1..Len(hist))) \ {{}}}

\* Two clients each made one call that updates the counter of `metric`, on
\* one bucket and in one interval.
ConcurrentWriters(metric) ==
    /\ Len(hist) = 2
    /\ hist[1].client # hist[2].client
    /\ UpdatesCounter(hist[1], metric) /\ UpdatesCounter(hist[2], metric)
    /\ hist[1].params.bucket = hist[2].params.bucket
    /\ hist[1].timestamp = hist[2].timestamp

\* C13: after concurrent writers of an absolute metric at one interval T
\* have completed, every sample at score T is max(0, c) for a value c the
\* running counter holds after a counter update in some serial order of
\* the writers.
C13_SerializableSample ==
    \A metric \in {"storageUtilized", "numberOfObjects"} :
        (ConcurrentWriters(metric) /\ Quiescent) =>
            \A e \in SamplesAt(genBucketStateKey(hist[1].params.bucket,
                                                  metric),
                                hist[1].timestamp) :
                \E c \in SerialCounterValues(metric) :
                    e.member = NumToString(IF c < 0 THEN 0 ELSE c)

\* The running counter of the absolute `metric` after the first i calls of
\* the history, made one after the other on a fresh store.
RECURSIVE CounterAfter(_, _)
CounterAfter(i, metric) ==
    IF i = 0 THEN 0
    ELSE IF ~UpdatesCounter(hist[i], metric) THEN CounterAfter(i - 1, metric)
    ELSE IF hist[i].metric = "createBucket" THEN 0
    ELSE CounterAfter(i - 1, metric) + CounterDelta(hist[i], metric)

\* The last call of the history is a deleteObject or multiObjectDelete that
\* has completed.
DeleteCompleted ==
    /\ Quiescent
    /\ hist # <<>>
    /\ methods[hist[Len(hist)].metric] = "_genericPushMetricDeleteObject"
    /\ ~hist[Len(hist)].threw

\* C14: a deleteObject or multiObjectDelete push with byteLength b and
\* numberOfObjects k leaves the storageUtilized counter at its earlier
\* value minus b and the numberOfObjects counter at its earlier value
\* minus k, negative values included, and leaves in each state set one
\* sample at the interval T of the push: the counter's value, or 0 when
\* that is negative.
C14_DeleteCountersAndSamples ==
    DeleteCompleted =>
        LET n == Len(hist)
            paramsArr == getParamsArr(hist[n].params)
        IN  \A l \in 1..Len(paramsArr) :
              \A metric \in {"storageUtilized", "numberOfObjects"} :
                LET before == CounterAfter(n - 1, metric)
                    after == before - (IF metric = "storageUtilized"
                                       THEN hist[n].params.byteLength.n
                                       ELSE hist[n].params.numberOfObjects.n)
                    counter == generateCounter(
                                   paramsArr[l],
                                   IF metric = "storageUtilized"
                                   THEN "storageUtilizedCounter"
                                   ELSE "numberOfObjectsCounter")
                IN  /\ StrGet(kv, counter) = after
                    /\ SamplesAt(generateStateKey(paramsArr[l], metric),
                                 hist[n].timestamp)
                           = {Entry(hist[n].timestamp,
                                    NumToString(IF after < 0 THEN 0
                                                ELSE after))}

\* A completed delete left a negative storageUtilized counter and the
\* sample 0 at its interval.
C14_Witness ==
    /\ DeleteCompleted
    /\ LET p == BucketParams(hist[Len(hist)].params.bucket)
           T == hist[Len(hist)].timestamp
       IN  /\ StrGet(kv, generateCounter(p, "storageUtilizedCounter")) < 0
           /\ Entry(T, <<"0">>)
                  \in ZGet(zs, generateStateKey(p, "storageUtilized"))

\* Calls i and j of the history are a putObject of a new object and a
\* deleteObject of one object of the same size on the same bucket.
PutAndDelete(i, j) ==
    /\ PutOfNewObject(i)
    /\ hist[j].metric = "deleteObject"
    /\ ~hist[j].threw
    /\ hist[j].params.bucket = hist[i].params.bucket
    /\ hist[j].params.byteLength = hist[i].params.newByteLength
    /\ hist[j].params.numberOfObjects = Num(1)

\* C15: after a putObject of a new object of size b and a deleteObject of
\* byteLength b and one object on the same resource of a fresh store have
\* both completed, in either order or interleaved, both running counters
\* hold the value they had before, 0.
C15_PutAndDeleteCancel ==
    (Len(hist) = 2 /\ Quiescent /\ (PutAndDelete(1, 2) \/ PutAndDelete(2, 1)))
        => LET paramsArr == getParamsArr(hist[1].params)
           IN  \A l \in 1..Len(paramsArr) :
                   /\ StrGet(kv, getCounters(paramsArr[l])[1]) = 0
                   /\ StrGet(kv, getCounters(paramsArr[l])[2]) = 0

\* The delete was called first, by another client than the put, and both
\* have completed.
C15_Witness ==
    /\ Len(hist) = 2
    /\ Quiescent
    /\ PutAndDelete(2, 1)
    /\ hist[1].client # hist[2].client
    /\ getCounters(BucketParams(hist[1].params.bucket))[1] \in DOMAIN kv

\* The sum of the deltas for m pushed by the first i calls of the history
\* in the interval T.
RECURSIVE PushedBefore(_, _, _)
PushedBefore(m, T, i) ==
    IF i = 0 THEN 0
    ELSE (IF hist[i].timestamp = T THEN DeltaOf(hist[i], m) ELSE 0)
         + PushedBefore(m, T, i - 1)

\* The last call of the history is a putObject that has completed.
PutCompleted ==
    /\ Quiescent
    /\ hist # <<>>
    /\ hist[Len(hist)].metric = "putObject"
    /\ ~hist[Len(hist)].threw

\* C16: a putObject push changes the storageUtilized counter by
\* newByteLength - oldByteLength and leaves the numberOfObjects counter as
\* it was when oldByteLength is not null, changes them by newByteLength and
\* by 1 when it is null, and in both cases adds newByteLength to
\* incomingBytes and 1 to the putObject counter of the interval.
C16_PutObjectCounters ==
    PutCompleted =>
        LET n == Len(hist)
            params == hist[n].params
            T == hist[n].timestamp
            paramsArr == getParamsArr(params)
            new == params.newByteLength.n
            overwrite == params.oldByteLength # Null
        IN  \A l \in 1..Len(paramsArr) :
              /\ StrGet(kv, getCounters(paramsArr[l])[1])
                     = CounterAfter(n - 1, "storageUtilized")
                       + (IF overwrite THEN new - params.oldByteLength.n
                          ELSE new)
              /\ StrGet(kv, getCounters(paramsArr[l])[2])
                     = CounterAfter(n - 1, "numberOfObjects")
                       + (IF overwrite THEN 0 ELSE 1)
              /\ StrGet(kv, generateKey(paramsArr[l], "incomingBytes", T))
                     = PushedBefore("incomingBytes", T, n - 1) + new
              /\ StrGet(kv, generateKey(paramsArr[l], "putObject", T))
                     = PushedBefore("putObject", T, n - 1) + 1

\* A putObject of a new object, then a putObject that overwrites it, in
\* the same interval: one object, and the bytes of both came in.
C16_Witness ==
    /\ PutCompleted
    /\ Len(hist) = 2
    /\ PutOfNewObject(1)
    /\ hist[2].params.oldByteLength # Null
    /\ hist[1].timestamp = hist[2].timestamp
    /\ LET p == BucketParams(hist[2].params.bucket)
       IN  /\ StrGet(kv, getCounters(p)[2]) = 1
           /\ StrGet(kv, generateKey(p, "incomingBytes", hist[2].timestamp))
                  = hist[1].params.newByteLength.n
                    + hist[2].params.newByteLength.n

\* The store after the method of `metric` has run for the levels levels,
\* with no other command in between.
RECURSIVE RunCall(_, _, _, _, _)
RunCall(k, z, metric, levels, T) ==
    IF levels = <<>> THEN [kv |-> k, zs |-> z]
    ELSE LET first == RunCmds(k, z, FirstCmds(metric, Head(levels), T))
             second == RunCmds(first.kv, first.zs,
                               AfterFirst(metric, Head(levels), T,
                                          first.results).cmds)
         IN  RunCall(second.kv, second.zs, metric, Tail(levels), T)

\* The store after the first i calls of the history, made one after the
\* other on a fresh store.
RECURSIVE Replay(_)
Replay(i) ==
    IF i = 0 THEN [kv |-> <<>>, zs |-> <<>>]
    ELSE LET prev == Replay(i - 1)
         IN  IF hist[i].threw \/ hist[i].disabled THEN prev
             ELSE RunCall(prev.kv, prev.zs, hist[i].metric,
                          getParamsArr(hist[i].params), hist[i].timestamp)

\* The keys of k of one of the kinds or metrics in `which`, with their
\* values.
Restrict(k, which) ==
    LET keys == {key \in DOMAIN k :
                    key.kind \in which \/ key.metric \in which}
    IN  [key \in keys |-> k[key]]

\* The last call of the history is a copyObject that has completed.
CopyCompleted ==
    /\ Quiescent
    /\ hist # <<>>
    /\ hist[Len(hist)].metric = "copyObject"
    /\ ~hist[Len(hist)].threw

\* C17: a copyObject push leaves the running counters and the state sets
\* as a putObject push with the same newByteLength and oldByteLength would
\* have left them, adds 1 to the copyObject counter of the interval, and
\* leaves the incomingBytes and outgoingBytes keys of every interval as
\* they were.
C17_CopyAsPut ==
    CopyCompleted =>
        LET n == Len(hist)
            T == hist[n].timestamp
            levels == getParamsArr(hist[n].params)
            before == Replay(n - 1)
            asPut == RunCall(before.kv, before.zs, "putObject", levels, T)
        IN  /\ Restrict(kv, {"counter"}) = Restrict(asPut.kv, {"counter"})
            /\ zs = asPut.zs
            /\ \A l \in 1..Len(levels) :
                   StrGet(kv, generateKey(levels[l], "copyObject", T))
                       = StrGet(before.kv,
                                generateKey(levels[l], "copyObject", T)) + 1
            /\ Restrict(kv, {"incomingBytes", "outgoingBytes"})
                   = Restrict(before.kv, {"incomingBytes", "outgoingBytes"})

\* A putObject of a new object, then a copyObject that overwrites it, in
\* the same interval: the bytes of the put came in, those of the copy did
\* not.
C17_Witness ==
    /\ CopyCompleted
    /\ Len(hist) = 2
    /\ PutOfNewObject(1)
    /\ hist[2].params.oldByteLength # Null
    /\ hist[1].timestamp = hist[2].timestamp
    /\ LET p == BucketParams(hist[2].params.bucket)
           T == hist[2].timestamp
       IN  /\ StrGet(kv, generateKey(p, "incomingBytes", T))
                  = hist[1].params.newByteLength.n
           /\ StrGet(kv, generateKey(p, "copyObject", T)) = 1
           /\ StrGet(kv, getCounters(p)[2]) = 1

CreateCompleted ==
    /\ Quiescent
    /\ hist # <<>>
    /\ hist[Len(hist)].metric = "createBucket"
    /\ ~hist[Len(hist)].threw

\* The number of createBucket calls of the history in the interval T that
\* name the resource of the per-level params p.
CreatesAt(p, T) ==
    Cardinality({i \in 1..Len(hist) :
                    /\ hist[i].metric = "createBucket"
                    /\ hist[i].timestamp = T
                    /\ p.bucket # Absent => hist[i].params.bucket = p.bucket
                    /\ p.accountId # Absent
                           => hist[i].params.accountId = p.accountId})

\* C19: a createBucket push leaves both running counters of each resource
\* at 0 and exactly one sample, 0, at its interval T in both state sets;
\* the createBucket counter of T is 1 for the bucket, however many
\* createBucket pushes named it in T, and the number of those pushes for
\* the account and the service.
C19_CreateBucket ==
    CreateCompleted =>
        LET T == hist[Len(hist)].timestamp
            levels == getParamsArr(hist[Len(hist)].params)
        IN  \A l \in 1..Len(levels) :
              LET p == levels[l]
              IN  /\ \A i \in 1..2 :
                        /\ getCounters(p)[i] \in DOMAIN kv
                        /\ kv[getCounters(p)[i]] = 0
                  /\ \A metric \in {"storageUtilized", "numberOfObjects"} :
                        SamplesAt(generateStateKey(p, metric), T)
                            = {Entry(T, <<"0">>)}
                  /\ StrGet(kv, generateKey(p, "createBucket", T))
                        = IF p.bucket # Absent THEN 1 ELSE CreatesAt(p, T)

\* Two createBucket pushes for one bucket of one account in one interval:
\* the bucket's counter is 1, the account's and the service's are 2.
C19_Witness ==
    /\ CreateCompleted
    /\ Len(hist) = 2
    /\ hist[1] = [hist[2] EXCEPT !.client = hist[1].client]
    /\ hist[2].params.accountId # Absent
    /\ LET levels == getParamsArr(hist[2].params)
           T == hist[2].timestamp
       IN  /\ Len(levels) = 3
           /\ \A l \in 1..3 :
                  StrGet(kv, generateKey(levels[l], "createBucket", T))
                      = IF levels[l].bucket # Absent THEN 1 ELSE 2

\* The calls after call j of the history are uploadPart calls of parts of
\* one size on one bucket in one interval, and have completed.
UploadPartsAfter(j) ==
    /\ Quiescent
    /\ j < Len(hist)
    /\ \A i \in (j + 1)..Len(hist) :
          /\ hist[i].metric = "uploadPart"
          /\ ~hist[i].threw
          /\ hist[i].params = hist[Len(hist)].params
          /\ hist[i].timestamp = hist[Len(hist)].timestamp

\* C20: after k uploadPart pushes of b bytes each on one resource, one
\* after the other in one interval T, the storageUtilized counter has grown
\* by k * b, incomingBytes of T by k * b and the uploadPart counter of T by
\* k, the one storageUtilized sample at T is the counter's value, and the
\* numberOfObjects counter and state set are as they were.
C20_UploadParts ==
    \A j \in 0..Len(hist) :
        UploadPartsAfter(j) =>
            LET n == Len(hist)
                k == n - j
                b == hist[n].params.newByteLength.n
                T == hist[n].timestamp
                levels == getParamsArr(hist[n].params)
                before == Replay(j)
            IN  \A l \in 1..Len(levels) :
                  LET p == levels[l]
                      su == getCounters(p)[1]
                      no == getCounters(p)[2]
                      noState == generateStateKey(p, "numberOfObjects")
                  IN  /\ StrGet(kv, su) = StrGet(before.kv, su) + k * b
                      /\ StrGet(kv, generateKey(p, "incomingBytes", T))
                            = StrGet(before.kv,
                                     generateKey(p, "incomingBytes", T))
                              + k * b
                      /\ StrGet(kv, generateKey(p, "uploadPart", T))
                            = StrGet(before.kv,
                                     generateKey(p, "uploadPart", T)) + k
                      /\ SamplesAt(generateStateKey(p, "storageUtilized"), T)
                            = {Entry(T, NumToString(StrGet(kv, su)))}
                      /\ no \in DOMAIN kv <=> no \in DOMAIN before.kv
                      /\ StrGet(kv, no) = StrGet(before.kv, no)
                      /\ ZGet(zs, noState) = ZGet(before.zs, noState)

\* Two uploadPart pushes in one interval on a fresh store.
C20_Witness ==
    /\ Len(hist) = 2
    /\ UploadPartsAfter(0)
    /\ LET p == BucketParams(hist[1].params.bucket)
       IN  /\ StrGet(kv, getCounters(p)[1])
                  = 2 * hist[1].params.newByteLength.n
           /\ StrGet(kv, generateKey(p, "uploadPart", hist[1].timestamp)) = 2

\* The metrics whose methods issue no command on a running counter or a
\* state set.
DeltaOnlyMetrics == GenericMetrics \cup {"listMultipartUploads", "getObject"}

\* The metric the operation key of an event is written under.
OperationKeyOf(metric) ==
    IF metric = "listMultipartUploads" THEN "listBucketMultipartUploads"
    ELSE metric

\* The last call of the history is a push of a metric of DeltaOnlyMetrics
\* that has completed.
DeltaOnlyCompleted ==
    /\ Quiescent
    /\ hist # <<>>
    /\ hist[Len(hist)].metric \in DeltaOnlyMetrics
    /\ ~hist[Len(hist)].threw

\* What the push of `metric` with the per-level params levels at the
\* interval T is to add to the key `key`.
DeltaOnlyChange(metric, levels, T, key) ==
    IF \E l \in 1..Len(levels) :
          key = generateKey(levels[l], OperationKeyOf(metric), T)
    THEN 1
    ELSE IF /\ metric = "getObject"
            /\ \E l \in 1..Len(levels) :
                  key = generateKey(levels[l], "outgoingBytes", T)
    THEN levels[1].newByteLength.n
    ELSE 0

\* C21: a push of an event routed to the generic increment, or of
\* getObject, adds 1 to the operation key of the current interval at each
\* recorded level and, for getObject, newByteLength to the outgoingBytes
\* key; it changes no other key, no running counter and no state set.
C21_DeltaOnlyFrame ==
    DeltaOnlyCompleted =>
        LET n == Len(hist)
            T == hist[n].timestamp
            levels == getParamsArr(hist[n].params)
            before == Replay(n - 1)
        IN  /\ zs = before.zs
            /\ Restrict(kv, {"counter"}) = Restrict(before.kv, {"counter"})
            /\ \A key \in DOMAIN kv :
                   kv[key] = StrGet(before.kv, key)
                             + DeltaOnlyChange(hist[n].metric, levels, T, key)
            /\ DOMAIN before.kv \subseteq DOMAIN kv
            /\ \A l \in 1..Len(levels) :
                   generateKey(levels[l], OperationKeyOf(hist[n].metric), T)
                       \in DOMAIN kv

\* A putObject, then a getObject in the same interval: the counters and the
\* samples of the put are as the put left them, and the bytes went out.
C21_Witness ==
    /\ DeltaOnlyCompleted
    /\ Len(hist) = 2
    /\ PutOfNewObject(1)
    /\ hist[2].metric = "getObject"
    /\ hist[1].timestamp = hist[2].timestamp
    /\ LET p == BucketParams(hist[2].params.bucket)
           T == hist[2].timestamp
       IN  /\ StrGet(kv, generateKey(p, "getObject", T)) = 1
           /\ StrGet(kv, generateKey(p, "outgoingBytes", T))
                  = hist[2].params.newByteLength.n
           /\ StrGet(kv, getCounters(p)[2]) = 1
           /\ SamplesAt(generateStateKey(p, "numberOfObjects"), T)
                  = {Entry(T, <<"1">>)}

\* The level of the configuration a key belongs to.
LevelOfKey(key) == IF key.level = "service" THEN "services" ELSE key.level

\* C22: a client configured with a metrics list writes keys only at the
\* levels the list names.
C22_OnlyConfiguredLevels ==
    metrics.defined =>
        \A key \in DOMAIN kv \cup DOMAIN zs :
            \E i \in 1..Len(metrics.levels) :
                metrics.levels[i] = LevelOfKey(key)

\* The one call of the history was made by an enabled client and has
\* completed.
OneCallCompleted ==
    /\ Quiescent
    /\ Len(hist) = 1
    /\ ~hist[1].threw
    /\ ~hist[1].disabled

\* C23: the fan-out of one call holds no two records for the same level,
\* and the call adds exactly 1 to the operation counter of each level it
\* records.
C23_OneRecordPerLevel ==
    OneCallCompleted =>
        LET levels == getParamsArr(hist[1].params)
        IN  /\ \A i, j \in 1..Len(levels) :
                   i # j => ResourceOf(levels[i]) # ResourceOf(levels[j])
            /\ \A key \in DOMAIN kv :
                   (/\ key.kind = "delta"
                    /\ key.metric = OperationKeyOf(hist[1].metric))
                   => kv[key] = 1

\* C24: while the client is disabled, every pushMetric call calls back
\* without an error and throws on no assertion, whatever its params, and no
\* command is queued or run.
C24_DisabledMode ==
    run.config.disableClient =>
        /\ kv = <<>>
        /\ zs = <<>>
        /\ \A c \in Clients :
              /\ conn[c] = <<>>
              /\ call[c].status \in {"idle", "done"}
              /\ call[c].status = "done" => call[c].cb = "ok"
        /\ \A i \in 1..Len(hist) : ~hist[i].threw

\* A disabled client was handed a putObject without newByteLength, and
\* called back without an error.
C24_Witness ==
    /\ run.config.disableClient
    /\ Len(hist) = 1
    /\ hist[1].metric = "putObject"
    /\ hist[1].params.newByteLength = Undefined
    /\ hist[1].params.bucket # Absent
    /\ call[hist[1].client].status = "done"
    /\ call[hist[1].client].cb = "ok"

\* The numeric properties an event of each kind is to carry.
RequiredNumbers(metric) ==
    CASE metric \in {"uploadPart", "getObject"} -> {"newByteLength"}
      [] metric \in {"putObject", "copyObject"} ->
           {"newByteLength", "oldByteLength"}
      [] metric \in {"deleteObject", "multiObjectDelete"} ->
           {"byteLength", "numberOfObjects"}
      [] OTHER -> {}

\* params lacks a numeric property the metric requires, or carries it with
\* a wrong type: not a number, null being allowed for oldByteLength.
LacksRequiredNumber(metric, params) ==
    \E prop \in RequiredNumbers(metric) :
        /\ params[prop].t # "int"
        /\ ~(prop = "oldByteLength" /\ params[prop] = Null)

\* C25: on an enabled client, a pushMetric call whose params lacks a
\* required numeric property, or carries it with a wrong type, throws, and
\* no command was queued or run for any level.
C25_AssertBeforeStore ==
    \A i \in 1..Len(hist) :
        (~hist[i].disabled
         /\ LacksRequiredNumber(hist[i].metric, hist[i].params))
        => /\ hist[i].threw
           /\ i = Len(hist) =>
                 /\ call[hist[i].client].status = "threw"
                 /\ call[hist[i].client].tasks = <<>>
                 /\ conn[hist[i].client] = <<>>
                 /\ kv = Replay(i - 1).kv
                 /\ zs = Replay(i - 1).zs

\* An enabled client without a metrics list was handed a deleteObject for
\* a bucket of an account with a numberOfObjects that is not a number.
C25_Witness ==
    /\ ~run.config.disableClient
    /\ ~run.config.metrics.defined
    /\ Len(hist) = 1
    /\ hist[1].metric = "deleteObject"
    /\ hist[1].params.bucket # Absent
    /\ hist[1].params.accountId # Absent
    /\ hist[1].params.byteLength.t = "int"
    /\ hist[1].params.numberOfObjects = NotANumber
    /\ hist[1].threw
    /\ kv = <<>>

\* C26: when a batch of a pushMetric call failed as a whole, the first
\* batch of a level or its re-sampling batch, the error the caller's
\* callback gets is InternalError, not the error of the store.
C26_BatchFailureIsInternalError ==
    \A c \in Clients :
        (/\ call[c].status = "done"
         /\ \E f \in call[c].faults : f.kind = "batch")
        => call[c].cb = "err"

\* C27: when a command of a batch of a pushMetric call reported an error
\* (and no batch failed as a whole), the caller's callback gets
\* InternalError.
C27_CommandFailureFailsPush ==
    \A c \in Clients :
        (/\ call[c].status = "done"
         /\ conn[c] = <<>>
         /\ call[c].faults # {}
         /\ \A f \in call[c].faults : f.kind = "command")
        => call[c].cb = "err"

\* The indexes of the commands of the request answered that read a delta
\* key of the metric reported as name, and failed.
FailedDeltasOf(cmds, name) ==
    {i \in rsp.fault.failed :
        /\ i <= Len(cmds) - 4
        /\ getMetricFromKey(cmds[i].key, rsp.bucket) = name}

\* The sum of the values the store holds under the keys of the commands at
\* the indexes idx.
RECURSIVE SumStored(_, _)
SumStored(cmds, idx) ==
    IF idx = {} THEN 0
    ELSE LET i == CHOOSE j \in idx : TRUE
         IN  StrGet(kv, cmds[i].key) + SumStored(cmds, idx \ {i})

\* C28: a request whose batch fails as a whole fails with InternalError.
\* A request some of whose commands fail succeeds: every metric is what it
\* would be had no command failed, less the values under the delta keys
\* whose get failed, and an absolute whose lookup failed is 0.
C28_FailedReadsCountZero ==
    rsp # NoResponse =>
        LET cmds == ReadCmds(rsp.bucket, rsp.range[1], rsp.range[2])
            whole == getBucketMetrics(kv, zs, now, rsp.bucket, rsp.range)
            n == Len(cmds)
            Slot(j, v) == IF (n - 4 + j) \in rsp.fault.failed THEN 0 ELSE v
        IN  IF rsp.fault.top
            THEN rsp.status = "err" /\ rsp.error = "InternalError"
            ELSE /\ rsp.status = "ok"
                 /\ rsp.res.storageUtilized
                       = <<Slot(1, whole.storageUtilized[1]),
                           Slot(2, whole.storageUtilized[2])>>
                 /\ rsp.res.numberOfObjects
                       = <<Slot(3, whole.numberOfObjects[1]),
                           Slot(4, whole.numberOfObjects[2])>>
                 /\ \A name \in {"incomingBytes", "outgoingBytes"} :
                       rsp.res[name]
                           = whole[name]
                             - SumStored(cmds, FailedDeltasOf(cmds, name))
                 /\ \A o \in Operations :
                       rsp.res.operations[o]
                           = whole.operations[o]
                             - SumStored(cmds, FailedDeltasOf(cmds, o))

\* The get of the putObject key of the first interval failed and the
\* request over both intervals succeeded: it reports the putObject count of
\* the second interval, and the bytes and the absolutes as they are.
C28_Witness ==
    /\ rsp # NoResponse
    /\ rsp.status = "ok"
    /\ rsp.range = <<StartOfTime, StartOfTime + IntervalMs>>
    /\ \E i \in rsp.fault.failed :
          ReadCmds(rsp.bucket, rsp.range[1], rsp.range[2])[i].key
              = generateKey(BucketParams(rsp.bucket), "putObject",
                            StartOfTime)
    /\ rsp.res.operations["s3:PutObject"] = 2
    /\ rsp.res.incomingBytes = 5
    /\ rsp.res.storageUtilized = <<5, 5>>

\* C29: the interval key N(t) of a call made at the wall clock time t is
\* at most t and less than 15 minutes before t, has minutes 0, 15, 30 or 45
\* with seconds and milliseconds 0, and is its own interval key.
C29_NormalizedTimestamp ==
    hist # <<>> =>
        LET t == now
            N == hist[Len(hist)].timestamp
        IN  /\ N <= t
            /\ t - N < IntervalMs
            /\ getMinutes(N) \in {0, 15, 30, 45}
            /\ N % MsPerMinute = 0
            /\ getNormalizedTimestamp(N) = N

\* The state sets call h samples for the params of one level.
SampledKeys(h, params) ==
    IF h.metric = "createBucket"
    THEN {generateStateKey(params, "storageUtilized"),
          generateStateKey(params, "numberOfObjects")}
    ELSE StateKeysOf(h.metric, params)

\* The state sets call h samples, at any of its levels.
SampledBy(h) ==
    LET levels == getParamsArr(h.params)
    IN  UNION {SampledKeys(h, levels[l]) : l \in 1..Len(levels)}

\* The running counter a state set samples.
CounterOfState(key) ==
    [key EXCEPT !.kind = "counter",
                !.metric = IF key.metric = "storageUtilized"
                           THEN "storageUtilizedCounter"
                           ELSE "numberOfObjectsCounter"]

\* The history is a stream of k events applied twice, one call after the
\* other, with the same interval timestamps.
AppliedTwice(k) ==
    /\ Quiescent
    /\ Len(hist) = 2 * k
    /\ \A i \in 1..k : hist[k + i] = hist[i] /\ ~hist[i].threw

\* C30: after a stream of events was applied twice, every delta key holds
\* twice the value it holds after the stream was applied once, and every
\* state set holds, at each interval an event sampled it in, exactly one
\* sample, whose value is the value the running counter had after the last
\* such event of the interval, or 0 if that is negative.
C30_ReplayTwice ==
    \A k \in 1..Len(hist) :
        AppliedTwice(k) =>
            /\ \A key \in DOMAIN kv :
                   key.kind = "delta"
                   => kv[key] = 2 * StrGet(Replay(k).kv, key)
            /\ \A i \in 1..Len(hist) : \A key \in SampledBy(hist[i]) :
                   LET T == hist[i].timestamp
                       last == CHOOSE j \in i..Len(hist) :
                                  /\ hist[j].timestamp = T
                                  /\ key \in SampledBy(hist[j])
                                  /\ \A n \in (j + 1)..Len(hist) :
                                        ~(/\ hist[n].timestamp = T
                                          /\ key \in SampledBy(hist[n]))
                       c == StrGet(Replay(last).kv, CounterOfState(key))
                   IN  \E e \in ZGet(zs, key) :
                          /\ SamplesAt(key, T) = {e}
                          /\ ParsedOrZero(StrReply(e.member))
                                = IF c < 0 THEN 0 ELSE c

\* No key of the store belongs to the bucket.
NoKeyOf(bucket) ==
    \A key \in DOMAIN kv \cup DOMAIN zs :
        ~(key.level = "buckets" /\ key.id = bucket)

\* C31: for a resource with no key in the store, a metrics request over any
\* time range succeeds and returns a record with the resource's name, the
\* timeRange [start, end] of the request, storageUtilized = [0, 0],
\* numberOfObjects = [0, 0], incomingBytes = 0, outgoingBytes = 0, and every
\* recognized operation name with the value 0.
C31_EmptyResource ==
    (rsp # NoResponse /\ NoKeyOf(rsp.bucket)) =>
        /\ rsp.status = "ok"
        /\ rsp.res.bucketName = rsp.bucket
        /\ rsp.res.timeRange = rsp.range
        /\ rsp.res.storageUtilized = <<0, 0>>
        /\ rsp.res.numberOfObjects = <<0, 0>>
        /\ rsp.res.incomingBytes = 0
        /\ rsp.res.outgoingBytes = 0
        /\ \A m \in DOMAIN OperationOf : Reports(rsp.res, m, 0)

\* C32: every delta key (an operation counter, incomingBytes or
\* outgoingBytes of a resource and an interval) is monotonic: whatever the
\* pushMetric calls and the interleaving of their commands, its value never
\* decreases from one state to the next.
C32_DeltaKeysMonotonic ==
    [][\A key \in DOMAIN kv :
          key.kind = "delta" => /\ key \in DOMAIN kv'
                                /\ kv'[key] >= kv[key]]_vars

\* Two clients pushed in one interval, one a createBucket and the other a
\* putObject: the bucket's createBucket key holds 1 and an incomingBytes key
\* the bytes that came in.
C32_Witness ==
    /\ Quiescent
    /\ Len(hist) = 2
    /\ hist[1].client # hist[2].client
    /\ \E i \in 1..2 : hist[i].metric = "createBucket"
    /\ \E i \in 1..2 :
          /\ hist[i].metric = "putObject"
          /\ ~hist[i].threw
          /\ \E key \in DOMAIN kv :
                /\ key.kind = "delta"
                /\ key.metric = "incomingBytes"
                /\ kv[key] = hist[i].params.newByteLength.n
    /\ StrGet(kv, generateKey(BucketParams("b1"), "createBucket",
                              hist[1].timestamp)) = 1

\* The keys of k at one level, with their values.
AtLevel(k, level) ==
    [key \in {x \in DOMAIN k : x.level = level} |-> k[key]]

\* The last call of the history is an initiateMultipartUpload or a
\* listMultipartUploads push for a bucket, and has completed.
MultipartListingCompleted ==
    /\ Quiescent
    /\ hist # <<>>
    /\ hist[Len(hist)].metric
           \in {"initiateMultipartUpload", "listMultipartUploads"}
    /\ ~hist[Len(hist)].threw
    /\ hist[Len(hist)].params.bucket # Absent

Boundaries(start, end) ==
    LET steps == {k \in 0..((end - start) \div IntervalMs) :
                     start + k * IntervalMs < end}
    IN  [j \in 1..(Cardinality(steps) + 1) |->
            IF j <= Cardinality(steps) THEN start + (j - 1) * IntervalMs
            ELSE end]

\* What a lookup of the state set `key` at the score t is folded to.
LookedUp(key, t) == ParsedOrZero(Zrevrangebyscore(ZGet(zs, key), t))

RequestFinished ==
    /\ req.status = "made"
    /\ req.running = {}
    /\ req.started = Len(req.buckets)

\* A batch of the request failed as a whole.
SomeBatchFailed ==
    \E i \in DOMAIN req.results : req.results[i] = Undefined

\* C35: at most 5 batches of a list request are outstanding at any moment;
\* when every batch succeeds the final callback gets, once and without an
\* error, the records of the buckets of the request in the order of its
\* list; when a batch fails as a whole the final callback gets that error,
\* once, and no record.
C35_ListRequest ==
    /\ Cardinality(req.running) <= 5
    /\ req.cb.calls <= 1
    /\ (RequestFinished /\ ~SomeBatchFailed) =>
          /\ req.cb.calls = 1
          /\ req.cb.err = "none"
          /\ DOMAIN req.cb.results = 1..Len(req.buckets)
          /\ \A i \in 1..Len(req.buckets) :
                /\ req.cb.results[i].bucketName = req.buckets[i]
                /\ req.cb.results[i]
                      = getBucketMetrics(kv, zs, now, req.buckets[i],
                                         req.range)
    /\ SomeBatchFailed =>
          /\ req.cb.calls = 1
          /\ req.cb.err = "InternalError"
          /\ \A i \in DOMAIN req.cb.results :
                req.cb.results[i] = Undefined

\* The command cmd is about the interval T: a delta key it names is the key
\* of T, and a score it names is T.
UsesTimestamp(cmd, T) ==
    /\ cmd.key.kind = "delta" => cmd.key.ts = T
    /\ cmd.op \in {"zadd", "zremrangebyscore"} => cmd.score = T

\* C36: every store command of one pushMetric call, at every level and in
\* both the counter-update batch and the re-sampling batch, uses the one
\* interval timestamp computed from the wall clock when the call was made,
\* even when the wall clock has crossed a 15-minute boundary since.
C36_OneTimestampPerCall ==
    [][\A c \in Clients :
          /\ (call[c].status # "running" /\ call'[c].status = "running")
                => call'[c].timestamp = getNormalizedTimestamp(now')
          /\ call[c].status = "running"
                => call'[c].timestamp = call[c].timestamp
          /\ \A k \in 1..Len(conn'[c]) :
                UsesTimestamp(conn'[c][k].cmd, call'[c].timestamp)]_vars

\* The re-sampling batch of a call is queued, at the score of the call's
\* interval, after the wall clock has moved on to the next interval.
C36_Witness ==
    \E c \in Clients :
        /\ call[c].status = "running"
        /\ conn[c] # <<>>
        /\ Head(conn[c]).cmd.op = "zremrangebyscore"
        /\ Head(conn[c]).cmd.score = call[c].timestamp
        /\ getNormalizedTimestamp(now) = call[c].timestamp + IntervalMs

\* The failure f is one of the outcomes of a level's write: its batch
\* failed as a whole, or a command of its first batch on a running counter,
\* or the one incr of a generic push, reported an error.
LevelOutcome(metric, f) ==
    \/ f.kind = "batch"
    \/ /\ f.kind = "command"
       /\ f.phase = "first"
       /\ \/ f.key.kind = "counter"
          \/ methods[metric] \in {"_genericPushMetric",
                                  "_pushMetricListBucketMultipartUploads"}

\* C37: for every event kind and every combination of the outcomes of the
\* levels' writes (success, a batch that fails as a whole, a counter
\* command that reports an error), a pushMetric call whose store calls all
\* complete calls the caller's callback in the end, and calls it with an
\* error exactly when the write of some level reported an error.
C37_CallbackOnce ==
    /\ [](\A c \in Clients :
             (/\ call[c].status = "done"
              /\ conn[c] = <<>>
              /\ \A f \in call[c].faults : LevelOutcome(call[c].metric, f))
             => (call[c].cb # "ok" <=> call[c].faults # {}))
    /\ \A c \in Clients :
          (call[c].status = "running") ~> (call[c].status = "done")

\* The first batch of task i of the call of client c failed: as a whole, or
\* a command on a running counter of its level reported an error.
FirstBatchFailed(c, i) ==
    LET k == generateStateKey(call[c].tasks[i].params, "storageUtilized")
    IN  \E f \in call[c].faults :
           /\ f.phase = "first"
           /\ f.key.level = k.level
           /\ f.key.id = k.id
           /\ f.kind = "batch" \/ f.key.kind = "counter"

\* Both state sets of the level of task i of the call of client c hold what
\* they held before the push.
StateSetsUntouched(c, i) ==
    \A m \in {"storageUtilized", "numberOfObjects"} :
       LET k == generateStateKey(call[c].tasks[i].params, m)
       IN  ZGet(zs, k) = ZGet(StoredSamples, k)

\* C38: for uploadPart, completeMultipartUpload, putObject, copyObject,
\* deleteObject and multiObjectDelete, the zremrangebyscore and zadd
\* commands of a level are queued only once the level's counter-update
\* batch has returned; when that batch fails as a whole or a command on a
\* running counter reports an error, no such command is queued for the
\* level and both state sets of the resource stay as they were.
C38_StateSetsAfterCounters ==
    \A c \in Clients :
       call[c].metric \in TwoPhaseMetrics =>
          /\ \A k \in DOMAIN conn[c] :
                conn[c][k].cmd.op \in {"zremrangebyscore", "zadd"}
                   => call[c].tasks[conn[c][k].task].phase = "second"
          /\ \A i \in DOMAIN call[c].tasks :
                /\ call[c].tasks[i].phase = "first" => StateSetsUntouched(c, i)
                /\ FirstBatchFailed(c, i)
                      => /\ StateSetsUntouched(c, i)
                         /\ call[c].tasks[i].phase # "second"
                         /\ \A k \in DOMAIN conn[c] :
                               conn[c][k].task = i =>
                                  conn[c][k].cmd.op
                                     \notin {"zremrangebyscore", "zadd"}

\* A push is over whose bucket-level batch failed while its service level
\* re-sampled its state sets.
C38_Witness ==
    \E c \in Clients :
       /\ call[c].status = "done"
       /\ conn[c] = <<>>
       /\ call[c].metric \in TwoPhaseMetrics
       /\ \E i, j \in DOMAIN call[c].tasks :
             /\ FirstBatchFailed(c, i)
             /\ ~FirstBatchFailed(c, j)
             /\ ~StateSetsUntouched(c, j)

\* C39: a request for the metrics of a list of buckets issues only get and
\* zrevrangebyscore commands, and no step of a request (its start, the
\* return of a batch that completes or fails, or of a batch whose request
\* has already called back) changes a string key or a state set, however
\* the steps are interleaved with those of a push: the store holds what the
\* pushes alone have written.
C39_ReadsLeaveStore ==
    /\ [](\A i \in req.running :
             LET cmds == ReadCmds(req.buckets[i], req.range[1], req.range[2])
             IN  \A k \in DOMAIN cmds :
                    cmds[k].op \in {"get", "zrevrangebyscore"})
    /\ [][req' # req => kv' = kv /\ zs' = zs]_vars

\* A batch of a request has failed and the request has called back with
\* the error while another of its batches is outstanding, and a push is
\* between its first and its second batch.
C39_Witness ==
    /\ req.cb.calls = 1
    /\ req.cb.err # "none"
    /\ req.running # {}
    /\ kv # <<>>
    /\ \E c \in Clients :
          /\ call[c].status = "running"
          /\ \E i \in DOMAIN call[c].tasks : call[c].tasks[i].phase = "second"

\* Every push made so far has completed.
AllCompleted ==
    \A c \in Clients : call[c].status # "running" /\ conn[c] = <<>>

\* The sum of the running counter `metric` of the buckets bs.
RECURSIVE SumOfBuckets(_, _)
SumOfBuckets(bs, metric) ==
    IF bs = {} THEN 0
    ELSE LET b == CHOOSE x \in bs : TRUE
         IN  StrGet(kv, generateCounter(BucketParams(b), metric))
                + SumOfBuckets(bs \ {b}, metric)

\* The running counter `metric` of the account a1.
AccountCounter(metric) ==
    StrGet(kv, generateCounter([bucket |-> Absent, accountId |-> "a1",
                                service |-> component], metric))

\* C40: when every event of an account's buckets carries the bucket and the
\* account and both levels are recorded, then after any sequence of
\* completed createBucket, putObject, copyObject, uploadPart and delete
\* pushes the running counters of the account equal the sums of the running
\* counters of its buckets.
C40_AccountIsSumOfBuckets ==
    AllCompleted =>
        \A metric \in {"storageUtilizedCounter", "numberOfObjectsCounter"} :
            AccountCounter(metric) = SumOfBuckets(AccountBuckets, metric)

====
